---- MODULE Spec2Model ----
(***************************************************************************)
(* OpsPad terminal session manager (src-tauri/src/terminal).               *)
(*                                                                         *)
(* The model follows PortablePtySessionManager: the registry               *)
(* `sessions`, the per-session Session object (meta, writer, master,       *)
(* killer), the two background threads started by spawn (read loop and     *)
(* child-wait thread), the detached kill thread started by close, and the  *)
(* caller-side operations write / resize / close, each split at the points *)
(* where the code takes or drops a lock.                                   *)
(*                                                                         *)
(* Strings are sequences of UTF-8 bytes.  A byte is one of                 *)
(*   "a", "b"   one-byte printable characters                              *)
(*   "SP"       a space (whitespace, one byte)                             *)
(*   "CR", "LF" carriage return and newline                                *)
(*   "E1", "E2" the lead and the continuation byte of a two-byte character *)
(***************************************************************************)
EXTENDS Integers, Sequences, FiniteSets, TLC

VARIABLES
    db,          \* the SQLite store: last-command preferences and command history
    arcs,        \* id -> strong count of the Arc<Session> the id was inserted with
    sessions,    \* registry: the set of ids that are keys of the HashMap
    meta,        \* id -> SessionMeta of the Session the id was inserted with
    ptySize,     \* id -> size last applied to the PTY master
    childIn,     \* id -> bytes written to the child's input stream
    child,       \* id -> "none" | "running" | "exited"
    readPc,      \* id -> position of the read-loop thread
    waitPc,      \* id -> position of the child-wait thread
    chunks,      \* id -> number of non-empty chunks the read loop has read
    events,      \* id -> events emitted with sessionId = id, in order
    killPending, \* id -> kill threads started by close and not yet run
    kills,       \* id -> number of kill() invocations
    calls,       \* caller -> the write/resize call it is executing
    lastRet,     \* the most recent return of write / resize / close
    lastSpawn,   \* the most recent return of spawn / open_local / open_ssh
    orphans,     \* children launched by a spawn that then returned an error
    clock,       \* SystemTime::now()
    removers,    \* history: id -> who found and removed the entry, in order
    okWrites,    \* history: id -> data of the writes that returned Ok, in return order
    wClean,      \* history: id -> no write on id overlapped another or failed
    sizeAck      \* history: id -> size of the last non-overlapped Ok resize, until the next resize

vars == <<sessions, meta, ptySize, childIn, child, readPc, waitPc, chunks,
          events, killPending, kills, calls, lastRet, lastSpawn, orphans,
          clock, removers, okWrites, wClean, sizeAck, arcs, db>>

(***************************************************************************)
(* Bounds of the model.                                                    *)
(***************************************************************************)
MaxSpawns == 2      \* spawn attempts (successful or not)
MaxCalls == 2       \* write / resize / close calls in one behaviour
MaxChunks == 1      \* non-empty chunks a read loop reads
MaxSegs == 3        \* segments of a provenance test string
MaxReads == 3       \* non-empty chunks a read loop reads when only output is followed

(***************************************************************************)
(* Program constants.                                                      *)
(***************************************************************************)
ProvMax == 512
DefaultCols == 120
DefaultRows == 30

\* Option<T>: None is the empty sequence, Some(x) the one-element sequence
None == <<>>
Some(x) == <<x>>
UnwrapOr(o, d) == IF o = None THEN d ELSE o[1]

CommandDock == "commanddock"
Callers == {"c1", "c2"}
AllIds == {1, 2}
Origins == {None, Some("user"), Some(CommandDock)}
Sizes == {<<80, 24>>, <<100, 40>>}
EnvOpts == {None, Some("PROD")}
ColOpts == {None, Some(80)}
RowOpts == {None, Some(24)}
Users == {<<"a">>}
Hosts == {<<"b">>}
Ports == {None, Some(22), Some(65535)}
Identities == {None, Some(<<>>), Some(<<"SP">>), Some(<<"a">>), Some(<<"SP", "a">>)}
Extras == {<<>>, <<(<<"-", "p">>)>>, <<(<<"a">>), <<"b">>>>, <<(<<"b">>), <<"a">>>>}

(***************************************************************************)
(* Strings.                                                                *)
(***************************************************************************)
Rep(b, n) == [i \in 1..n |-> b]
RepWide(n) == [i \in 1..(2 * n) |-> IF i % 2 = 1 THEN "E1" ELSE "E2"]

IsContinuation(b) == b = "E2"
IsWhitespace(b) == b \in {"SP", "CR", "LF"}

\* str::is_char_boundary(i), i a byte offset
IsCharBoundary(s, i) ==
    \/ i = 0
    \/ i = Len(s)
    \/ i < Len(s) /\ ~IsContinuation(s[i + 1])

\* number of characters (not bytes) of s
CharCount(s) == Len(SelectSeq(s, LAMBDA b : ~IsContinuation(b)))

\* the first n characters of s
CharPrefix(s, n) ==
    LET starts == SelectSeq([i \in 1..Len(s) |-> i], LAMBDA i : ~IsContinuation(s[i]))
    IN  IF Len(starts) <= n THEN s ELSE SubSeq(s, 1, starts[n + 1] - 1)

\* cmd.replace("\r", "").replace('\n', "")
StripCrLf(s) == SelectSeq(s, LAMBDA b : b \notin {"CR", "LF"})

RECURSIVE TrimStart(_)
TrimStart(s) ==
    IF s = <<>> \/ ~IsWhitespace(Head(s)) THEN s ELSE TrimStart(Tail(s))

RECURSIVE TrimEnd(_)
TrimEnd(s) ==
    IF s = <<>> \/ ~IsWhitespace(s[Len(s)]) THEN s ELSE TrimEnd(SubSeq(s, 1, Len(s) - 1))

\* str::trim()
Trim(s) == TrimEnd(TrimStart(s))

\* a thread that panics: String::truncate asserts is_char_boundary(new_len)
Panic == <<"PANIC">>

\* String::truncate(n), called with n < len
Truncate(s, n) == IF IsCharBoundary(s, n) THEN SubSeq(s, 1, n) ELSE Panic

\* the command recorded by write for a commanddock-origin write (lines 175-180)
ProvenanceCmd(data) ==
    LET cmd == Trim(StripCrLf(data))
    IN  IF Len(cmd) > ProvMax THEN Truncate(cmd, ProvMax) ELSE cmd

\* faulty variant: any tagged write counts as a command run
IsCommandDock_AnyOrigin(origin) == origin # None

\* meta.origin.as_deref() == Some("commanddock")
IsCommandDock(origin) == origin = Some(CommandDock)

\* faulty variant: a command run sends the normalized command instead of the raw data
WriteBytes_Normalized(data, origin) ==
    IF origin = Some(CommandDock) THEN Trim(StripCrLf(data)) ELSE data

\* data.as_bytes(): the bytes write_all is given
WriteBytes(data, origin) == data

\* WriteMeta::default()
WriteMetaDefault == None

RECURSIVE Flatten(_)
Flatten(ss) == IF ss = <<>> THEN <<>> ELSE Head(ss) \o Flatten(Tail(ss))

DataSet == {<<"a", "LF">>, <<"LF">>}

Segments == {Rep("a", 1), Rep("a", ProvMax - 1), Rep("SP", 1), Rep("LF", 1),
             RepWide(1), RepWide(300)}
RECURSIVE SegStrings(_)
SegStrings(n) ==
    IF n = 0 THEN {<<>>}
    ELSE LET shorter == SegStrings(n - 1)
         IN  shorter \cup {s \o g : s \in shorter, g \in Segments}
ProvData == SegStrings(MaxSegs)

(***************************************************************************)
(* Registry (HashMap<String, Arc<Session>> behind one Mutex).              *)
(***************************************************************************)
\* map.get(id).is_some()
Found(reg, id) == id \in reg

\* faulty variant: the entry is looked up but stays in the map
RegistryRemove_Keep(reg, id) == reg

\* map.remove(id): the map afterwards
RegistryRemove(reg, id) == reg \ {id}

\* faulty variant: spawn builds the session but never stores it in the map
RegistryInsert_Skip(reg, id) == reg

\* map.insert(id, session): the map afterwards
RegistryInsert(reg, id) == reg \cup {id}

\* faulty variant: a loop notifies whether or not it removed the entry
LoopRemoved_Always(reg, id) == TRUE

\* `removed` of a background loop: map.remove(&session_id).is_some()
LoopRemoved(reg, id) == Found(reg, id)

\* faulty variant: close reads the entry (get) and leaves it in the map
CloseTake_Peek(reg, id) == reg

\* the map after close's map.remove(session_id)
CloseTake(reg, id) == RegistryRemove(reg, id)

\* Uuid::new_v4(): an id no session was given before
Issued == {id \in AllIds : child[id] # "none"}

\* faulty variant: ids come from a pool and a free one is handed out again
NextId_Reuse ==
    IF AllIds \subseteq sessions THEN Cardinality(AllIds) + 1
    ELSE CHOOSE i \in AllIds \ sessions : \A j \in AllIds \ sessions : i <= j

NextId == Cardinality(Issued) + 1

NoReq ==
    [kind |-> "none", sshFound |-> TRUE, user |-> <<>>, host |-> <<>>, port |-> None, identity |-> None,
     extra |-> <<>>, env |-> None, cols |-> None, rows |-> None]
NoMeta == [env |-> "", cols |-> 0, rows |-> 0, lastCmd |-> None, lastAt |-> None]
\* the store before any command has run; `runs` and `lastOrigin` record the
\* terminal_write commands issued so far and the origin of the latest one,
\* `scopes` the ids in terminal_session_scopes, `lastOpen` what the latest
\* terminal_open_local command returned and the id its spawn created (0: none)
EmptyDb == [prefs |-> [id \in AllIds |-> None], history |-> <<>>,
            runs |-> 0, lastOrigin |-> None,
            scopes |-> {}, lastOpen |-> [seq |-> 0, res |-> "none", created |-> 0]]

Idle == [op |-> "idle", id |-> 0, data |-> <<>>, origin |-> None, plain |-> FALSE,
         cols |-> 0, rows |-> 0, pc |-> "idle", solo |-> FALSE, locks |-> {}, sent |-> 0]

InFlight == {c \in Callers : calls[c].op # "idle"}
CallsBegun == lastRet.seq + Cardinality(InFlight)
Busy(op, id) == {c \in Callers : calls[c].op = op /\ calls[c].id = id}

DataEvent(k) == [type |-> "terminal:data", chunk |-> k]
ExitEvent == [type |-> "terminal:exit", chunk |-> 0]
ExitCount(id) == Len(SelectSeq(events[id], LAMBDA e : e.type = "terminal:exit"))

Init ==
    /\ sessions = {}
    /\ meta = [id \in AllIds |-> NoMeta]
    /\ ptySize = [id \in AllIds |-> <<0, 0>>]
    /\ childIn = [id \in AllIds |-> <<>>]
    /\ child = [id \in AllIds |-> "none"]
    /\ readPc = [id \in AllIds |-> "none"]
    /\ waitPc = [id \in AllIds |-> "none"]
    /\ chunks = [id \in AllIds |-> 0]
    /\ events = [id \in AllIds |-> <<>>]
    /\ killPending = [id \in AllIds |-> 0]
    /\ kills = [id \in AllIds |-> 0]
    /\ calls = [c \in Callers |-> Idle]
    /\ lastRet = [seq |-> 0, op |-> "none", id |-> 0, res |-> "none", io |-> "none"]
    /\ lastSpawn = [seq |-> 0, res |-> "none", id |-> 0, stage |-> "none",
                    req |-> NoReq, spec |-> None]
    /\ orphans = 0
    /\ clock = 1
    /\ removers = [id \in AllIds |-> <<>>]
    /\ okWrites = [id \in AllIds |-> <<>>]
    /\ wClean = [id \in AllIds |-> TRUE]
    /\ sizeAck = [id \in AllIds |-> None]
    /\ arcs = [id \in AllIds |-> 0]
    /\ db = EmptyDb

(***************************************************************************)
(* spawn.  Nothing shared is touched before the registry insert, so the    *)
(* fallible prefix and the insert are one step; `outcome` names the step   *)
(* that failed, or "ok".                                                   *)
(***************************************************************************)
SpawnOutcomes == {"openpty", "spawn_command", "try_clone_reader", "take_writer", "ok"}

\* the child exists once pair.slave.spawn_command succeeded
ChildLaunched(outcome) == outcome \in {"try_clone_reader", "take_writer", "ok"}

\* faulty variant: the session is registered before the writer is taken
SpawnInserts_Early(outcome) == outcome \in {"ok", "take_writer"}

\* the session is built, inserted and its threads started only when no step failed
SpawnInserts(outcome) == outcome = "ok"

\* faulty variant: the defaults are used unless both dimensions are given
InitialSize_BothOrDefault(icols, irows) ==
    IF icols # None /\ irows # None THEN <<icols[1], irows[1]>> ELSE <<DefaultCols, DefaultRows>>

\* lines 49-50: <<cols, rows>> the PTY is opened with
InitialSize(icols, irows) == <<UnwrapOr(icols, DefaultCols), UnwrapOr(irows, DefaultRows)>>

(***************************************************************************)
(* The Session is shared through Arc<Session>.  The registry entry holds   *)
(* one strong reference; write and resize clone it under the registry      *)
(* guard and drop the clone when they return; close moves the registry's   *)
(* reference into the kill thread; a loop that removes the entry drops it  *)
(* at the end of the statement.  The writer, the master and the killer are *)
(* fields of the Session, so they are released when the count reaches 0.   *)
(***************************************************************************)
ArcClone(a, id) == [a EXCEPT ![id] = @ + 1]

ArcDrop(a, id) == [a EXCEPT ![id] = @ - 1]

\* faulty variant: a background thread captures a clone of the Session
SpawnArcs_ThreadKeepsClone(outcome) == IF SpawnInserts(outcome) THEN 3 ELSE 0

\* strong references right after the insert of line 99: the map's clone and
\* spawn's own `session`, which lives until spawn returns; the two threads
\* capture the reader, the child and the map, never the Session
SpawnArcs(outcome) == IF SpawnInserts(outcome) THEN 2 ELSE 0

\* `req` is the facade call the spawn serves (kept for the record of the call);
\* `spec` is the SpawnSpec
SpawnSteps(req, spec, outcome) ==
    /\ lastSpawn.seq < MaxSpawns
    /\ LET id == NextId
           size == InitialSize(spec.initial_cols, spec.initial_rows)
           cols == size[1]
           rows == size[2]
       IN  /\ IF SpawnInserts(outcome)
              THEN /\ sessions' = RegistryInsert(sessions, id)
                   /\ meta' = [meta EXCEPT ![id] =
                         [env |-> spec.environment_tag, cols |-> cols, rows |-> rows,
                          lastCmd |-> None, lastAt |-> None]]
                   /\ ptySize' = [ptySize EXCEPT ![id] = <<cols, rows>>]
                   /\ child' = [child EXCEPT ![id] = "running"]
                   /\ readPc' = [readPc EXCEPT ![id] = "read"]
                   /\ waitPc' = [waitPc EXCEPT ![id] = "wait"]
              ELSE UNCHANGED <<sessions, meta, ptySize, child, readPc, waitPc>>
           /\ orphans' = IF ChildLaunched(outcome) /\ ~SpawnInserts(outcome)
                         THEN orphans + 1 ELSE orphans
           /\ lastSpawn' = IF outcome = "ok"
                           THEN [seq |-> lastSpawn.seq + 1, res |-> "Ok", id |-> id,
                                 stage |-> outcome, req |-> req, spec |-> Some(spec)]
                           ELSE [seq |-> lastSpawn.seq + 1, res |-> "Backend", id |-> 0,
                                 stage |-> outcome, req |-> req, spec |-> Some(spec)]
    /\ UNCHANGED <<childIn, chunks, events, killPending, kills, lastRet,
                   clock, removers, okWrites, wClean, sizeAck>>

\* spawn with its return taken in the same step as the insert: spawn's own
\* `session` is dropped at once, which no property that leaves `arcs` alone
\* can tell from the two-step form below
Spawn(req, spec, outcome) ==
    /\ SpawnSteps(req, spec, outcome)
    /\ arcs' = [arcs EXCEPT ![NextId] =
                    IF SpawnInserts(outcome) THEN SpawnArcs(outcome) - 1 ELSE 0]
    /\ UNCHANGED <<calls, db>>

\* spawn up to the start of its two threads (lines 44-157); caller c still
\* holds `session` and has not returned
SpawnCall(c, req, spec, outcome) ==
    /\ calls[c] = Idle
    /\ SpawnSteps(req, spec, outcome)
    /\ arcs' = [arcs EXCEPT ![NextId] = SpawnArcs(outcome)]
    /\ calls' = IF SpawnInserts(outcome)
                 THEN [calls EXCEPT ![c] =
                          [Idle EXCEPT !.op = "spawn", !.id = NextId, !.pc = "return"]]
                 ELSE calls
    /\ UNCHANGED db

\* spawn returns Ok(session_id) (line 159) and its `session` goes out of scope
SpawnReturn(c) ==
    /\ calls[c].op = "spawn" /\ calls[c].pc = "return"
    /\ calls' = [calls EXCEPT ![c] = Idle]
    /\ arcs' = ArcDrop(arcs, calls[c].id)
    /\ UNCHANGED <<db, sessions, meta, ptySize, childIn, child, readPc, waitPc, chunks,
                   events, killPending, kills, lastRet, lastSpawn, orphans, clock,
                   removers, okWrites, wClean, sizeAck>>

\* the arguments of an open_local call
LocalReq(envOpt, icols, irows) ==
    [kind |-> "local", sshFound |-> TRUE, user |-> <<>>, host |-> <<>>, port |-> None, identity |-> None,
     extra |-> <<>>, env |-> envOpt, cols |-> icols, rows |-> irows]

\* the SpawnSpec open_local builds (the shell takes no arguments)
LocalSpec(envOpt, icols, irows) ==
    [kind |-> "Local", environment_tag |-> UnwrapOr(envOpt, "LOCAL"),
     initial_cols |-> icols, initial_rows |-> irows, args |-> <<>>]

\* TerminalManager::open_local
OpenLocal(envOpt, icols, irows, outcome) ==
    Spawn(LocalReq(envOpt, icols, irows), LocalSpec(envOpt, icols, irows), outcome)

\* the arguments of an open_ssh call, and whether ssh_program_checked() found ssh
SshReq(resolved, user, host, port, identity, extra, envOpt, icols, irows) ==
    [kind |-> "ssh", sshFound |-> resolved, user |-> user, host |-> host, port |-> port, identity |-> identity,
     extra |-> extra, env |-> envOpt, cols |-> icols, rows |-> irows]

\* u16::to_string(): decimal digits, no sign, no leading zero
RECURSIVE PortToString(_)
PortToString(p) ==
    LET digit == <<"0", "1", "2", "3", "4", "5", "6", "7", "8", "9">>[(p % 10) + 1]
    IN  IF p < 10 THEN <<digit>> ELSE Append(PortToString(p \div 10), digit)

FlagTt == <<"-", "t", "t">>
FlagP == <<"-", "p">>
FlagI == <<"-", "i">>

\* format!("{user}@{host}")
Target(user, host) == user \o <<"@">> \o host

\* faulty variant: the target is pushed before the caller's extra arguments
SshArgs_TargetBeforeExtra(user, host, port, identity, extra) ==
    LET a1 == <<FlagTt>>
        a2 == IF port # None THEN a1 \o <<FlagP, PortToString(port[1])>> ELSE a1
        a3 == IF identity # None /\ Trim(identity[1]) # <<>>
              THEN a2 \o <<FlagI, identity[1]>> ELSE a2
    IN  Append(a3, Target(user, host)) \o extra

\* lines 97-117: the argument vector, push by push
SshArgs(user, host, port, identity, extra) ==
    LET a1 == <<FlagTt>>
        a2 == IF port # None THEN a1 \o <<FlagP, PortToString(port[1])>> ELSE a1
        a3 == IF identity # None /\ Trim(identity[1]) # <<>>
              THEN a2 \o <<FlagI, identity[1]>> ELSE a2
        a4 == a3 \o extra
    IN  Append(a4, Target(user, host))

\* the SpawnSpec open_ssh builds
SshSpec(user, host, port, identity, extra, envOpt, icols, irows) ==
    [kind |-> "Ssh", environment_tag |-> UnwrapOr(envOpt, "UNKNOWN"),
     initial_cols |-> icols, initial_rows |-> irows,
     args |-> SshArgs(user, host, port, identity, extra)]

\* faulty variant: the lookup failure is ignored and the bare name "ssh" is spawned
OpenSsh_SpawnsAnyway(resolved, user, host, port, identity, extra, envOpt, icols, irows, outcome) ==
    Spawn(SshReq(resolved, user, host, port, identity, extra, envOpt, icols, irows),
          SshSpec(user, host, port, identity, extra, envOpt, icols, irows), outcome)

\* TerminalManager::open_ssh; `resolved` is the outcome of ssh_program_checked()
OpenSsh(resolved, user, host, port, identity, extra, envOpt, icols, irows, outcome) ==
    IF resolved
    THEN Spawn(SshReq(resolved, user, host, port, identity, extra, envOpt, icols, irows),
               SshSpec(user, host, port, identity, extra, envOpt, icols, irows), outcome)
    ELSE /\ lastSpawn.seq < MaxSpawns
         /\ lastSpawn' = [seq |-> lastSpawn.seq + 1, res |-> "Backend", id |-> 0,
                          stage |-> "ssh_program_checked",
                          req |-> SshReq(resolved, user, host, port, identity, extra, envOpt, icols, irows),
                          spec |-> None]
         /\ UNCHANGED <<sessions, meta, ptySize, childIn, child, readPc, waitPc,
                        chunks, events, killPending, kills, calls, lastRet, orphans,
                        clock, removers, okWrites, wClean, sizeAck, arcs, db>>

(***************************************************************************)
(* The child and the two background threads of a session.                  *)
(***************************************************************************)
ChildExit(id) ==
    /\ child[id] = "running"
    /\ child' = [child EXCEPT ![id] = "exited"]
    /\ UNCHANGED <<db, arcs, sessions, meta, ptySize, childIn, readPc, waitPc, chunks, events,
                   killPending, kills, calls, lastRet, lastSpawn, orphans, clock,
                   removers, okWrites, wClean, sizeAck>>

\* faulty variant: a chunk is read and dropped without an event
ReadChunk_Silent(id) ==
    /\ readPc[id] = "read"
    /\ chunks' = [chunks EXCEPT ![id] = @ + 1]
    /\ UNCHANGED <<db, arcs, sessions, meta, ptySize, childIn, child, readPc, waitPc, events,
                   killPending, kills, calls, lastRet, lastSpawn, orphans, clock,
                   removers, okWrites, wClean, sizeAck>>

\* reader.read(&mut buf) = Ok(n), n > 0
ReadChunk(id) ==
    /\ readPc[id] = "read"
    /\ chunks' = [chunks EXCEPT ![id] = @ + 1]
    /\ readPc' = [readPc EXCEPT ![id] = "emit_data"]
    /\ UNCHANGED <<db, arcs, sessions, meta, ptySize, childIn, child, waitPc, events,
                   killPending, kills, calls, lastRet, lastSpawn, orphans, clock,
                   removers, okWrites, wClean, sizeAck>>

\* app2.emit("terminal:data", ..)
EmitData(id) ==
    /\ readPc[id] = "emit_data"
    /\ events' = [events EXCEPT ![id] = Append(@, DataEvent(chunks[id]))]
    /\ readPc' = [readPc EXCEPT ![id] = "read"]
    /\ UNCHANGED <<db, arcs, sessions, meta, ptySize, childIn, child, waitPc, chunks,
                   killPending, kills, calls, lastRet, lastSpawn, orphans, clock,
                   removers, okWrites, wClean, sizeAck>>

ReadBreak(id) ==
    /\ readPc[id] = "read"
    /\ readPc' = [readPc EXCEPT ![id] = "finalize"]
    /\ UNCHANGED <<db, arcs, sessions, meta, ptySize, childIn, child, waitPc, chunks, events,
                   killPending, kills, calls, lastRet, lastSpawn, orphans, clock,
                   removers, okWrites, wClean, sizeAck>>

\* reader.read = Ok(0): the slave side is closed, the child is gone
ReadEof(id) == child[id] = "exited" /\ ReadBreak(id)

\* faulty variant: on a read error the thread ends without finalizing
ReadErr_Abandon(id) ==
    /\ readPc[id] = "read"
    /\ readPc' = [readPc EXCEPT ![id] = "done"]
    /\ UNCHANGED <<db, arcs, sessions, meta, ptySize, childIn, child, waitPc, chunks, events,
                   killPending, kills, calls, lastRet, lastSpawn, orphans, clock,
                   removers, okWrites, wClean, sizeAck>>

\* reader.read = Err(_): can happen whatever the child does
ReadErr(id) == ReadBreak(id)

\* faulty variant: the read loop's finalize also signals the kill capability
ReadFinalize_Kills(id) ==
    /\ readPc[id] = "finalize"
    /\ sessions' = RegistryRemove(sessions, id)
    /\ readPc' = [readPc EXCEPT ![id] = IF LoopRemoved(sessions, id) THEN "emit_exit" ELSE "done"]
    /\ removers' = [removers EXCEPT ![id] = IF Found(sessions, id) THEN Append(@, "read") ELSE @]
    /\ kills' = [kills EXCEPT ![id] = IF Found(sessions, id) THEN @ + 1 ELSE @]
    /\ UNCHANGED <<db, meta, ptySize, childIn, child, waitPc, chunks, events,
                   killPending, calls, lastRet, lastSpawn, orphans, clock,
                   okWrites, wClean, sizeAck>>
    /\ arcs' = IF Found(sessions, id) THEN ArcDrop(arcs, id) ELSE arcs

\* lines 125-128: lock the registry, remove, unlock
ReadFinalize(id) ==
    /\ readPc[id] = "finalize"
    /\ sessions' = RegistryRemove(sessions, id)
    /\ readPc' = [readPc EXCEPT ![id] = IF LoopRemoved(sessions, id) THEN "emit_exit" ELSE "done"]
    /\ removers' = [removers EXCEPT ![id] = IF Found(sessions, id) THEN Append(@, "read") ELSE @]
    /\ UNCHANGED <<db, meta, ptySize, childIn, child, waitPc, chunks, events,
                   killPending, kills, calls, lastRet, lastSpawn, orphans, clock,
                   okWrites, wClean, sizeAck>>
    /\ arcs' = IF Found(sessions, id) THEN ArcDrop(arcs, id) ELSE arcs

\* lines 129-136
ReadEmitExit(id) ==
    /\ readPc[id] = "emit_exit"
    /\ events' = [events EXCEPT ![id] = Append(@, ExitEvent)]
    /\ readPc' = [readPc EXCEPT ![id] = "done"]
    /\ UNCHANGED <<db, arcs, sessions, meta, ptySize, childIn, child, waitPc, chunks,
                   killPending, kills, calls, lastRet, lastSpawn, orphans, clock,
                   removers, okWrites, wClean, sizeAck>>

WaitBreak(id) ==
    /\ waitPc[id] = "wait"
    /\ waitPc' = [waitPc EXCEPT ![id] = "finalize"]
    /\ UNCHANGED <<db, arcs, sessions, meta, ptySize, childIn, child, readPc, chunks, events,
                   killPending, kills, calls, lastRet, lastSpawn, orphans, clock,
                   removers, okWrites, wClean, sizeAck>>

\* faulty variant: the wait thread first waits for the read loop to end
WaitExited_AfterReader(id) == child[id] = "exited" /\ readPc[id] = "done" /\ WaitBreak(id)

\* child.wait() = Ok(status)
WaitExited(id) == child[id] = "exited" /\ WaitBreak(id)

\* child.wait() = Err(_); the result is discarded (let _ =)
WaitErr(id) == WaitBreak(id)

\* faulty variant: the wait thread looks the entry up (get) instead of removing it
WaitFinalize_Peek(id) ==
    /\ waitPc[id] = "finalize"
    /\ waitPc' = [waitPc EXCEPT ![id] = IF LoopRemoved(sessions, id) THEN "emit_exit" ELSE "done"]
    /\ removers' = [removers EXCEPT ![id] = IF Found(sessions, id) THEN Append(@, "wait") ELSE @]
    /\ UNCHANGED <<db, arcs, sessions, meta, ptySize, childIn, child, readPc, chunks, events,
                   killPending, kills, calls, lastRet, lastSpawn, orphans, clock,
                   okWrites, wClean, sizeAck>>

\* lines 145-148
WaitFinalize(id) ==
    /\ waitPc[id] = "finalize"
    /\ sessions' = RegistryRemove(sessions, id)
    /\ waitPc' = [waitPc EXCEPT ![id] = IF LoopRemoved(sessions, id) THEN "emit_exit" ELSE "done"]
    /\ removers' = [removers EXCEPT ![id] = IF Found(sessions, id) THEN Append(@, "wait") ELSE @]
    /\ UNCHANGED <<db, meta, ptySize, childIn, child, readPc, chunks, events,
                   killPending, kills, calls, lastRet, lastSpawn, orphans, clock,
                   okWrites, wClean, sizeAck>>
    /\ arcs' = IF Found(sessions, id) THEN ArcDrop(arcs, id) ELSE arcs

\* lines 149-156
WaitEmitExit(id) ==
    /\ waitPc[id] = "emit_exit"
    /\ events' = [events EXCEPT ![id] = Append(@, ExitEvent)]
    /\ waitPc' = [waitPc EXCEPT ![id] = "done"]
    /\ UNCHANGED <<db, arcs, sessions, meta, ptySize, childIn, child, readPc, chunks,
                   killPending, kills, calls, lastRet, lastSpawn, orphans, clock,
                   removers, okWrites, wClean, sizeAck>>

(***************************************************************************)
(* write / resize / close.  A call that finds no session returns in its    *)
(* lookup step; otherwise the caller holds the Arc<Session> and goes on.   *)
(***************************************************************************)
\* `io` records what the writer did in a write that reached it
RetIo(op, id, res, io) == [seq |-> lastRet.seq + 1, op |-> op, id |-> id, res |-> res, io |-> io]
Ret(op, id, res) == RetIo(op, id, res, "none")

\* lines 163-169 (and the test of line 173, which reads only the arguments)
BackendWrite(c, id, data, origin, plain) ==
    /\ calls[c] = Idle
    /\ IF ~Found(sessions, id)
       THEN /\ lastRet' = Ret("write", id, "NotFound")
            /\ UNCHANGED <<calls, wClean>>
       ELSE /\ calls' = [calls EXCEPT ![c] =
                  [op |-> "write", id |-> id, data |-> data, origin |-> origin,
                   plain |-> plain, cols |-> 0, rows |-> 0,
                   pc |-> IF IsCommandDock(origin) THEN "prov" ELSE "write_all",
                   solo |-> FALSE, locks |-> {}, sent |-> 0]]
            /\ wClean' = [wClean EXCEPT ![id] = @ /\ Busy("write", id) = {}]
            /\ UNCHANGED lastRet
    /\ UNCHANGED <<sessions, meta, ptySize, childIn, child, readPc, waitPc, chunks,
                   events, killPending, kills, lastSpawn, orphans, clock, removers,
                   okWrites, sizeAck>>
    /\ arcs' = IF Found(sessions, id) THEN ArcClone(arcs, id) ELSE arcs

\* TerminalManager::write
FacadeWrite(c, id, data) ==
    BackendWrite(c, id, data, WriteMetaDefault, TRUE) /\ UNCHANGED db

\* TerminalManager::write_with_meta
FacadeWriteWithMeta(c, id, data, origin) ==
    BackendWrite(c, id, data, origin, FALSE) /\ UNCHANGED db

\* what terminal_prefs_get_size can return: an error, no stored size, a size
SizeResults == {"err", "none", "some"}

\* the terminal_open_local command (lib.rs lines 126-149).  `sizeRes` is the
\* result of terminal_prefs_get_size("local"), `outcome` that of the spawn,
\* `scopeOk` and `touchOk` those of terminal_session_scope_set and
\* terminal_prefs_touch; each `?` returns the error at once.
TerminalOpenLocal(envOpt, sizeRes, outcome, scopeOk, touchOk) ==
    LET env == UnwrapOr(envOpt, "LOCAL")
        icols == IF sizeRes = "some" THEN Some(80) ELSE None
        irows == IF sizeRes = "some" THEN Some(24) ELSE None
        made == IF SpawnInserts(outcome) THEN NextId ELSE 0
        ok == outcome = "ok" /\ scopeOk /\ touchOk
    IN  IF sizeRes = "err"
        THEN /\ db' = [db EXCEPT !.lastOpen =
                           [seq |-> @.seq + 1, res |-> "Err", created |-> 0]]
             /\ UNCHANGED <<sessions, meta, ptySize, childIn, child, readPc, waitPc,
                            chunks, events, killPending, kills, calls, lastRet,
                            lastSpawn, orphans, clock, removers, okWrites, wClean,
                            sizeAck, arcs>>
        ELSE /\ SpawnSteps(LocalReq(Some(env), icols, irows),
                           LocalSpec(Some(env), icols, irows), outcome)
             /\ arcs' = [arcs EXCEPT ![NextId] =
                             IF SpawnInserts(outcome) THEN SpawnArcs(outcome) - 1 ELSE 0]
             /\ db' = [db EXCEPT
                           !.scopes = IF outcome = "ok" /\ scopeOk
                                      THEN @ \cup {NextId} ELSE @,
                           !.lastOpen = [seq |-> @.seq + 1,
                                         res |-> IF ok THEN "Ok" ELSE "Err",
                                         created |-> made]]
             /\ UNCHANGED calls

\* String::replace('\r', "")
StripCr(s) == SelectSeq(s, LAMBDA b : b # "CR")

\* the text terminal_write appends to the history (lib.rs lines 222-223)
HistoryText(data) == Trim(StripCr(data))

\* faulty variant: the test of line 238 (origin.is_some()) used at line 210
DockOrigin_AnyTag(origin) == origin # None

\* origin.as_deref() == Some("commanddock") (lib.rs line 210)
DockOrigin(origin) == origin = Some(CommandDock)

\* the terminal_write command (lib.rs): the persistence block, then the call
\* of write or write_with_meta up to its lookup.  `scoped` says that
\* terminal_session_scope_get returned Ok(Some(scope)); the scope of a session
\* is written as its id.  `prefOk` and `histOk` say whether the two statements
\* that change the store succeeded: their results are dropped.  A preference
\* row carries updated_at, written here as the number of the command.
TerminalWrite(c, id, data, origin, dock, scoped, envOpt, prefOk, histOk) ==
    /\ LET text == HistoryText(data)
           persists == DockOrigin(origin) /\ scoped
       IN  db' = [prefs |-> IF persists /\ prefOk
                            THEN [db.prefs EXCEPT ![id] =
                                     Some([dock |-> dock, at |-> db.runs + 1])]
                            ELSE db.prefs,
                  history |-> IF persists /\ text # <<>> /\ histOk
                              THEN Append(db.history,
                                          [scope |-> id, env |-> UnwrapOr(envOpt, "UNKNOWN"),
                                           text |-> text, dock |-> dock])
                              ELSE db.history,
                  runs |-> db.runs + 1,
                  lastOrigin |-> origin,
                  scopes |-> db.scopes,
                  lastOpen |-> db.lastOpen]
    /\ IF origin # None
       THEN BackendWrite(c, id, data, origin, FALSE)
       ELSE BackendWrite(c, id, data, WriteMetaDefault, TRUE)

\* faulty variant: the command is recorded without the is_empty() test
WriteProv_RecordsEmpty(c) ==
    /\ calls[c].op = "write" /\ calls[c].pc = "prov"
    /\ LET id == calls[c].id
           cmd == ProvenanceCmd(calls[c].data)
       IN  IF cmd = Panic
           THEN /\ calls' = [calls EXCEPT ![c] = Idle]
                /\ lastRet' = Ret("write", id, "panic")
                /\ UNCHANGED <<meta, clock>>
           ELSE /\ calls' = [calls EXCEPT ![c].pc = "write_all"]
                /\ meta' = [meta EXCEPT ![id].lastCmd = Some(cmd),
                                        ![id].lastAt = Some(clock)]
                /\ clock' = clock + 1
                /\ UNCHANGED lastRet
    /\ UNCHANGED <<db, sessions, ptySize, childIn, child, readPc, waitPc, chunks, events,
                   killPending, kills, lastSpawn, orphans, removers, okWrites,
                   wClean, sizeAck>>
    /\ arcs' = IF ProvenanceCmd(calls[c].data) = Panic THEN ArcDrop(arcs, calls[c].id) ELSE arcs

\* lines 174-185
WriteProv(c) ==
    /\ calls[c].op = "write" /\ calls[c].pc = "prov"
    /\ LET id == calls[c].id
           cmd == ProvenanceCmd(calls[c].data)
       IN  IF cmd = Panic
           THEN /\ calls' = [calls EXCEPT ![c] = Idle]
                /\ lastRet' = Ret("write", id, "panic")
                /\ UNCHANGED <<meta, clock>>
           ELSE /\ calls' = [calls EXCEPT ![c].pc = "write_all"]
                /\ IF cmd # <<>>
                   THEN /\ meta' = [meta EXCEPT ![id].lastCmd = Some(cmd),
                                                ![id].lastAt = Some(clock)]
                        /\ clock' = clock + 1
                   ELSE UNCHANGED <<meta, clock>>
                /\ UNCHANGED lastRet
    /\ UNCHANGED <<db, sessions, ptySize, childIn, child, readPc, waitPc, chunks, events,
                   killPending, kills, lastSpawn, orphans, removers, okWrites,
                   wClean, sizeAck>>
    /\ arcs' = IF ProvenanceCmd(calls[c].data) = Panic THEN ArcDrop(arcs, calls[c].id) ELSE arcs

\* faulty variant: the flush result is propagated like the write result
WriteAllOk_FlushChecked(c, flushOk) ==
    /\ calls[c].op = "write" /\ calls[c].pc = "write_all"
    /\ LET id == calls[c].id
       IN  /\ childIn' = [childIn EXCEPT ![id] = @ \o WriteBytes(calls[c].data, calls[c].origin)]
           /\ okWrites' = [okWrites EXCEPT ![id] = IF flushOk THEN Append(@, calls[c].data) ELSE @]
           /\ lastRet' = IF flushOk THEN RetIo("write", id, "Ok", "written")
                          ELSE RetIo("write", id, "Backend", "flush_failed")
    /\ calls' = [calls EXCEPT ![c] = Idle]
    /\ UNCHANGED <<db, sessions, meta, ptySize, child, readPc, waitPc, chunks, events,
                   killPending, kills, lastSpawn, orphans, clock, removers, wClean,
                   sizeAck>>
    /\ arcs' = ArcDrop(arcs, calls[c].id)

\* lines 188-192: the writer lock is taken, write_all succeeds, flush succeeds
\* (flushOk) or fails, its result is dropped (.ok()), the lock is released
WriteAllOk(c, flushOk) ==
    /\ calls[c].op = "write" /\ calls[c].pc = "write_all"
    /\ LET id == calls[c].id
       IN  /\ childIn' = [childIn EXCEPT ![id] = @ \o WriteBytes(calls[c].data, calls[c].origin)]
           /\ okWrites' = [okWrites EXCEPT ![id] = Append(@, calls[c].data)]
           /\ lastRet' = RetIo("write", id, "Ok", IF flushOk THEN "written" ELSE "flush_failed")
    /\ calls' = [calls EXCEPT ![c] = Idle]
    /\ UNCHANGED <<db, sessions, meta, ptySize, child, readPc, waitPc, chunks, events,
                   killPending, kills, lastSpawn, orphans, clock, removers, wClean,
                   sizeAck>>
    /\ arcs' = ArcDrop(arcs, calls[c].id)

\* lines 188-190: the writer lock is taken, write_all fails after k bytes went out
WriteAllErr(c, k) ==
    /\ calls[c].op = "write" /\ calls[c].pc = "write_all"
    /\ k < Len(WriteBytes(calls[c].data, calls[c].origin))
    /\ LET id == calls[c].id
       IN  /\ childIn' = [childIn EXCEPT ![id] =
                  @ \o SubSeq(WriteBytes(calls[c].data, calls[c].origin), 1, k)]
           /\ wClean' = [wClean EXCEPT ![id] = FALSE]
           /\ lastRet' = RetIo("write", id, "Backend", "write_all_failed")
    /\ calls' = [calls EXCEPT ![c] = Idle]
    /\ UNCHANGED <<db, sessions, meta, ptySize, child, readPc, waitPc, chunks, events,
                   killPending, kills, lastSpawn, orphans, clock, removers, okWrites,
                   sizeAck>>
    /\ arcs' = ArcDrop(arcs, calls[c].id)

\* lines 196-202
BackendResize(c, id, cols, rows) ==
    /\ calls[c] = Idle
    /\ IF ~Found(sessions, id)
       THEN /\ lastRet' = Ret("resize", id, "NotFound")
            /\ UNCHANGED <<calls, sizeAck>>
       ELSE /\ calls' = [d \in Callers |->
                  IF d = c
                  THEN [op |-> "resize", id |-> id, data |-> <<>>, origin |-> None,
                        plain |-> FALSE, cols |-> cols, rows |-> rows, pc |-> "meta",
                        solo |-> Busy("resize", id) = {}, locks |-> {}, sent |-> 0]
                  ELSE IF d \in Busy("resize", id)
                       THEN [calls[d] EXCEPT !.solo = FALSE]
                       ELSE calls[d]]
            /\ sizeAck' = [sizeAck EXCEPT ![id] = None]
            /\ UNCHANGED lastRet
    /\ UNCHANGED <<db, sessions, meta, ptySize, childIn, child, readPc, waitPc, chunks,
                   events, killPending, kills, lastSpawn, orphans, clock, removers,
                   okWrites, wClean>>
    /\ arcs' = IF Found(sessions, id) THEN ArcClone(arcs, id) ELSE arcs

\* faulty variant: columns and rows are stored the wrong way round
RecordedSize_Swapped(cols, rows) == <<rows, cols>>

\* the size resize records in SessionMeta (lines 206-207)
RecordedSize(cols, rows) == <<cols, rows>>

\* faulty variant: resize replaces the SessionMeta by a fresh one
ResizeMeta_FreshMeta(c) ==
    /\ calls[c].op = "resize" /\ calls[c].pc = "meta"
    /\ meta' = [meta EXCEPT ![calls[c].id] =
          [env |-> "UNKNOWN", cols |-> calls[c].cols, rows |-> calls[c].rows,
           lastCmd |-> @.lastCmd, lastAt |-> @.lastAt]]
    /\ calls' = [calls EXCEPT ![c].pc = "pty_resize"]
    /\ UNCHANGED <<db, arcs, sessions, ptySize, childIn, child, readPc, waitPc, chunks, events,
                   killPending, kills, lastRet, lastSpawn, orphans, clock, removers,
                   okWrites, wClean, sizeAck>>

\* lines 204-208
ResizeMeta(c) ==
    /\ calls[c].op = "resize" /\ calls[c].pc = "meta"
    /\ LET sz == RecordedSize(calls[c].cols, calls[c].rows)
       IN  meta' = [meta EXCEPT ![calls[c].id].cols = sz[1], ![calls[c].id].rows = sz[2]]
    /\ calls' = [calls EXCEPT ![c].pc = "pty_resize"]
    /\ UNCHANGED <<db, arcs, sessions, ptySize, childIn, child, readPc, waitPc, chunks, events,
                   killPending, kills, lastRet, lastSpawn, orphans, clock, removers,
                   okWrites, wClean, sizeAck>>

\* lines 210-218: the master lock is taken, master.resize = Ok
ResizeOk(c) ==
    /\ calls[c].op = "resize" /\ calls[c].pc = "pty_resize"
    /\ LET id == calls[c].id
       IN  /\ ptySize' = [ptySize EXCEPT ![id] = <<calls[c].cols, calls[c].rows>>]
           /\ sizeAck' = [sizeAck EXCEPT ![id] =
                  IF calls[c].solo THEN Some(<<calls[c].cols, calls[c].rows>>) ELSE @]
           /\ lastRet' = Ret("resize", id, "Ok")
    /\ calls' = [calls EXCEPT ![c] = Idle]
    /\ UNCHANGED <<db, sessions, meta, childIn, child, readPc, waitPc, chunks, events,
                   killPending, kills, lastSpawn, orphans, clock, removers, okWrites,
                   wClean>>
    /\ arcs' = ArcDrop(arcs, calls[c].id)

\* faulty variant: a failed resize also drops the session from the registry
ResizeErr_Drops(c) ==
    /\ calls[c].op = "resize" /\ calls[c].pc = "pty_resize"
    /\ lastRet' = Ret("resize", calls[c].id, "Backend")
    /\ sessions' = RegistryRemove(sessions, calls[c].id)
    /\ calls' = [calls EXCEPT ![c] = Idle]
    /\ UNCHANGED <<db, meta, ptySize, childIn, child, readPc, waitPc, chunks, events,
                   killPending, kills, lastSpawn, orphans, clock, removers, okWrites,
                   wClean, sizeAck>>
    /\ arcs' = IF Found(sessions, calls[c].id)
                THEN ArcDrop(ArcDrop(arcs, calls[c].id), calls[c].id)
                ELSE ArcDrop(arcs, calls[c].id)

\* lines 210-218: the master lock is taken, master.resize = Err
ResizeErr(c) ==
    /\ calls[c].op = "resize" /\ calls[c].pc = "pty_resize"
    /\ lastRet' = Ret("resize", calls[c].id, "Backend")
    /\ calls' = [calls EXCEPT ![c] = Idle]
    /\ UNCHANGED <<db, sessions, meta, ptySize, childIn, child, readPc, waitPc, chunks, events,
                   killPending, kills, lastSpawn, orphans, clock, removers, okWrites,
                   wClean, sizeAck>>
    /\ arcs' = ArcDrop(arcs, calls[c].id)

\* faulty variant: close on an unknown id succeeds silently
CloseMissing_Ok == "Ok"

\* what close returns when the registry held no entry (lines 227-229)
CloseMissing == "NotFound"

\* faulty variant: close calls kill() itself before it returns
BackendClose_SyncKill(c, id) ==
    /\ calls[c] = Idle
    /\ IF ~Found(sessions, id)
       THEN /\ lastRet' = Ret("close", id, CloseMissing)
            /\ UNCHANGED <<sessions, kills, removers>>
       ELSE /\ sessions' = CloseTake(sessions, id)
            /\ kills' = [kills EXCEPT ![id] = @ + 1]
            /\ removers' = [removers EXCEPT ![id] = Append(@, "close")]
            /\ lastRet' = Ret("close", id, "Ok")
    /\ UNCHANGED <<db, meta, ptySize, childIn, child, readPc, waitPc, chunks, events,
                   killPending, calls, lastSpawn, orphans, clock, okWrites, wClean,
                   sizeAck>>
    /\ arcs' = IF Found(sessions, id) THEN ArcDrop(arcs, id) ELSE arcs

\* lines 221-236; the kill runs in a detached thread (KillRun)
BackendClose(c, id) ==
    /\ calls[c] = Idle
    /\ IF ~Found(sessions, id)
       THEN /\ lastRet' = Ret("close", id, CloseMissing)
            /\ UNCHANGED <<sessions, killPending, removers>>
       ELSE /\ sessions' = CloseTake(sessions, id)
            /\ killPending' = [killPending EXCEPT ![id] = @ + 1]
            /\ removers' = [removers EXCEPT ![id] = Append(@, "close")]
            /\ lastRet' = Ret("close", id, "Ok")
    /\ UNCHANGED <<db, arcs, meta, ptySize, childIn, child, readPc, waitPc, chunks, events,
                   kills, calls, lastSpawn, orphans, clock, okWrites, wClean, sizeAck>>

\* line 233: session.killer.lock().kill(), result dropped
KillRun(id) ==
    /\ killPending[id] > 0
    /\ killPending' = [killPending EXCEPT ![id] = @ - 1]
    /\ kills' = [kills EXCEPT ![id] = @ + 1]
    /\ UNCHANGED <<db, sessions, meta, ptySize, childIn, child, readPc, waitPc, chunks,
                   events, calls, lastRet, lastSpawn, orphans, clock, removers,
                   okWrites, wClean, sizeAck>>
    /\ arcs' = ArcDrop(arcs, id)

(***************************************************************************)
(* write / resize / close at the granularity of their lock scopes.  A call *)
(* record carries `locks`, the mutex guards the calling thread holds; a    *)
(* guard is taken in one step (LockAcquire) and dropped in the step that   *)
(* ends its scope.  write_all and master.resize may block for any length   *)
(* of time: the caller then stays at "writing" / "resizing".               *)
(***************************************************************************)
RegistryLock == <<"registry", 0>>
MetaLock(id) == <<"meta", id>>
WriterLock(id) == <<"writer", id>>
MasterLock(id) == <<"master", id>>

\* faulty variant: each write works on its own handle of the writer, unguarded
LockFree_WriterUnguarded(l) == l[1] = "writer" \/ \A d \in Callers : l \notin calls[d].locks

\* Mutex: no thread holds the guard
LockFree(l) == \A d \in Callers : l \notin calls[d].locks

\* the mutex a call is about to lock, by its position
Wanted(call) ==
    CASE call.pc = "registry" -> RegistryLock
      [] call.pc = "meta" -> MetaLock(call.id)
      [] call.pc = "writer" -> WriterLock(call.id)
      [] call.pc = "master" -> MasterLock(call.id)
      [] OTHER -> <<"none", 0>>

\* the position inside the scope of the guard just taken
Inside(pc) ==
    CASE pc = "registry" -> "lookup"
      [] pc = "meta" -> "in_meta"
      [] pc = "writer" -> "writing"
      [] pc = "master" -> "resizing"
      [] OTHER -> pc

\* a call enters write, resize or close
LockedBegin(c, op, id, data, origin, cols, rows) ==
    /\ calls[c] = Idle
    /\ calls' = [calls EXCEPT ![c] =
          [op |-> op, id |-> id, data |-> data, origin |-> origin, plain |-> FALSE,
           cols |-> cols, rows |-> rows, pc |-> "registry", solo |-> FALSE, locks |-> {}, sent |-> 0]]
    /\ UNCHANGED <<db, arcs, sessions, meta, ptySize, childIn, child, readPc, waitPc, chunks,
                   events, killPending, kills, lastRet, lastSpawn, orphans, clock,
                   removers, okWrites, wClean, sizeAck>>

\* Mutex::lock(): blocks while another thread holds the guard
LockAcquire(c) ==
    /\ calls[c].pc \in {"registry", "meta", "writer", "master"}
    /\ LockFree(Wanted(calls[c]))
    /\ calls' = [calls EXCEPT ![c].locks = @ \cup {Wanted(calls[c])},
                              ![c].pc = Inside(@)]
    /\ UNCHANGED <<db, arcs, sessions, meta, ptySize, childIn, child, readPc, waitPc, chunks,
                   events, killPending, kills, lastRet, lastSpawn, orphans, clock,
                   removers, okWrites, wClean, sizeAck>>

\* faulty variant: the registry guard is bound to a local (let map = ...lock())
\* and lives to the end of the function
AfterLookup_GuardKept(locks) == locks

\* the registry guard is a temporary of the lookup statement (lines 163-169,
\* 196-202) or is dropped with its block (lines 222-225)
AfterLookup(locks) == locks \ {RegistryLock}

\* where write goes after the lookup: lines 173-181 read only the arguments
WriteAfterLookup(call) ==
    IF ~IsCommandDock(call.origin) THEN "writer"
    ELSE IF ProvenanceCmd(call.data) = Panic THEN "panic"
    ELSE IF ProvenanceCmd(call.data) # <<>> THEN "meta"
    ELSE "writer"

\* the map operation under the registry guard: get().cloned() for write and
\* resize, remove() for close; close then starts the kill thread and returns
LockedLookup(c) ==
    /\ calls[c].pc = "lookup"
    /\ LET call == calls[c]
           id == call.id
           rest == AfterLookup(call.locks)
       IN  IF ~Found(sessions, id)
           THEN /\ lastRet' = Ret(call.op, id, "NotFound")
                /\ calls' = [calls EXCEPT ![c] = Idle]
                /\ UNCHANGED <<sessions, killPending, removers>>
           ELSE IF call.op = "close"
           THEN /\ sessions' = CloseTake(sessions, id)
                /\ killPending' = [killPending EXCEPT ![id] = @ + 1]
                /\ removers' = [removers EXCEPT ![id] = Append(@, "close")]
                /\ lastRet' = Ret("close", id, "Ok")
                /\ calls' = [calls EXCEPT ![c] = Idle]
           ELSE IF call.op = "write" /\ WriteAfterLookup(call) = "panic"
           THEN /\ lastRet' = Ret("write", id, "panic")
                /\ calls' = [calls EXCEPT ![c] = Idle]
                /\ UNCHANGED <<sessions, killPending, removers>>
           ELSE /\ calls' = [calls EXCEPT ![c].locks = rest,
                                        ![c].pc = IF call.op = "write"
                                                  THEN WriteAfterLookup(call) ELSE "meta"]
                /\ UNCHANGED <<sessions, killPending, removers, lastRet>>
    /\ arcs' = IF /\ Found(sessions, calls[c].id)
                   /\ calls[c].op # "close"
                   /\ ~(calls[c].op = "write" /\ WriteAfterLookup(calls[c]) = "panic")
                THEN ArcClone(arcs, calls[c].id) ELSE arcs
    /\ UNCHANGED <<db, meta, ptySize, childIn, child, readPc, waitPc, chunks, events,
                   kills, lastSpawn, orphans, clock, okWrites, wClean, sizeAck>>

\* the scope of the meta guard: lines 182-185 (write), 204-208 (resize)
LockedMeta(c) ==
    /\ calls[c].pc = "in_meta"
    /\ LET call == calls[c]
           id == call.id
       IN  IF call.op = "write"
           THEN /\ meta' = [meta EXCEPT ![id].lastCmd = Some(ProvenanceCmd(call.data)),
                                        ![id].lastAt = Some(clock)]
                /\ clock' = clock + 1
                /\ calls' = [calls EXCEPT ![c].locks = @ \ {MetaLock(id)}, ![c].pc = "writer"]
           ELSE /\ meta' = [meta EXCEPT ![id].cols = RecordedSize(call.cols, call.rows)[1],
                                        ![id].rows = RecordedSize(call.cols, call.rows)[2]]
                /\ clock' = clock
                /\ calls' = [calls EXCEPT ![c].locks = @ \ {MetaLock(id)}, ![c].pc = "master"]
    /\ UNCHANGED <<db, arcs, sessions, ptySize, childIn, child, readPc, waitPc, chunks, events,
                   killPending, kills, lastRet, lastSpawn, orphans, removers,
                   okWrites, wClean, sizeAck>>

\* lines 189-192 under the writer guard: write_all returns (Ok, or Err after
\* k bytes), flush, the guard is dropped with the function
LockedWriteAll(c, ok, k) ==
    /\ calls[c].pc = "writing"
    /\ LET call == calls[c]
           id == call.id
           bytes == WriteBytes(call.data, call.origin)
       IN  /\ ok => k = Len(bytes)
           /\ ~ok => k < Len(bytes)
           /\ childIn' = [childIn EXCEPT ![id] = @ \o SubSeq(bytes, 1, k)]
           /\ lastRet' = IF ok THEN RetIo("write", id, "Ok", "written")
                          ELSE RetIo("write", id, "Backend", "write_all_failed")
    /\ calls' = [calls EXCEPT ![c] = Idle]
    /\ UNCHANGED <<db, sessions, meta, ptySize, child, readPc, waitPc, chunks, events,
                   killPending, kills, lastSpawn, orphans, clock, removers, okWrites,
                   wClean, sizeAck>>
    /\ arcs' = ArcDrop(arcs, calls[c].id)

\* write_all under the writer guard, one byte at a time (line 189): the next
\* byte of the data reaches the child's input
LockedWriteByte(c) ==
    /\ calls[c].pc = "writing"
    /\ LET call == calls[c]
           bytes == WriteBytes(call.data, call.origin)
       IN  /\ call.sent < Len(bytes)
           /\ childIn' = [childIn EXCEPT ![call.id] = Append(@, bytes[call.sent + 1])]
    /\ calls' = [calls EXCEPT ![c].sent = @ + 1]
    /\ UNCHANGED <<db, arcs, sessions, meta, ptySize, child, readPc, waitPc, chunks, events,
                   killPending, kills, lastRet, lastSpawn, orphans, clock, removers,
                   okWrites, wClean, sizeAck>>

\* write_all returns: Ok once every byte is written, Err before that; then
\* flush, and the writer guard is dropped with the function (lines 189-192)
LockedWriteEnd(c, ok) ==
    /\ calls[c].pc = "writing"
    /\ LET call == calls[c]
           id == call.id
           bytes == WriteBytes(call.data, call.origin)
       IN  /\ ok <=> call.sent = Len(bytes)
           /\ okWrites' = [okWrites EXCEPT ![id] = IF ok THEN Append(@, call.data) ELSE @]
           /\ wClean' = [wClean EXCEPT ![id] = @ /\ ok]
           /\ lastRet' = IF ok THEN RetIo("write", id, "Ok", "written")
                          ELSE RetIo("write", id, "Backend", "write_all_failed")
    /\ calls' = [calls EXCEPT ![c] = Idle]
    /\ arcs' = ArcDrop(arcs, calls[c].id)
    /\ UNCHANGED <<db, sessions, meta, ptySize, childIn, child, readPc, waitPc, chunks,
                   events, killPending, kills, lastSpawn, orphans, clock, removers,
                   sizeAck>>

\* lines 211-218 under the master guard: master.resize returns
LockedPtyResize(c, ok) ==
    /\ calls[c].pc = "resizing"
    /\ LET id == calls[c].id
       IN  /\ ptySize' = [ptySize EXCEPT ![id] =
                  IF ok THEN <<calls[c].cols, calls[c].rows>> ELSE @]
           /\ lastRet' = Ret("resize", id, IF ok THEN "Ok" ELSE "Backend")
    /\ calls' = [calls EXCEPT ![c] = Idle]
    /\ UNCHANGED <<db, sessions, meta, childIn, child, readPc, waitPc, chunks, events,
                   killPending, kills, lastSpawn, orphans, clock, removers, okWrites,
                   wClean, sizeAck>>
    /\ arcs' = ArcDrop(arcs, calls[c].id)

\* the next step of caller c's call
CallerStep(c) ==
    \/ LockAcquire(c)
    \/ LockedLookup(c)
    \/ LockedMeta(c)
    \/ \E ok \in BOOLEAN : \E k \in 0..Len(calls[c].data) : LockedWriteAll(c, ok, k)
    \/ \E ok \in BOOLEAN : LockedPtyResize(c, ok)

(***************************************************************************)
(* The session manager with its callers and background threads.            *)
(***************************************************************************)
Next ==
    \/ NextId = 1 /\ OpenLocal(None, None, None, "ok")
    \/ \E c \in Callers, id \in AllIds, d \in DataSet :
           CallsBegun < MaxCalls /\ FacadeWrite(c, id, d)
    \/ \E c \in Callers, id \in AllIds, d \in DataSet, o \in Origins \ {None} :
           CallsBegun < MaxCalls /\ FacadeWriteWithMeta(c, id, d, o)
    \/ \E c \in Callers, id \in AllIds, sz \in Sizes :
           CallsBegun < MaxCalls /\ BackendResize(c, id, sz[1], sz[2])
    \/ \E c \in Callers, id \in AllIds :
           CallsBegun < MaxCalls /\ BackendClose(c, id)
    \/ \E c \in Callers : WriteProv(c)
    \/ \E c \in Callers, f \in BOOLEAN : WriteAllOk(c, f)
    \/ \E c \in Callers : \E k \in 0..Len(calls[c].data) : WriteAllErr(c, k)
    \/ \E c \in Callers : ResizeMeta(c)
    \/ \E c \in Callers : ResizeOk(c)
    \/ \E c \in Callers : ResizeErr(c)
    \/ \E id \in AllIds : KillRun(id)
    \/ \E id \in AllIds : ChildExit(id)
    \/ \E id \in AllIds : chunks[id] < MaxChunks /\ ReadChunk(id)
    \/ \E id \in AllIds : EmitData(id)
    \/ \E id \in AllIds : ReadEof(id)
    \/ \E id \in AllIds : ReadErr(id)
    \/ \E id \in AllIds : ReadFinalize(id)
    \/ \E id \in AllIds : ReadEmitExit(id)
    \/ \E id \in AllIds : WaitExited(id)
    \/ \E id \in AllIds : WaitErr(id)
    \/ \E id \in AllIds : WaitFinalize(id)
    \/ \E id \in AllIds : WaitEmitExit(id)

Spec == Init /\ [][Next]_vars

(***************************************************************************)
(* Opening sessions: open_local and open_ssh with and without an           *)
(* environment tag and every outcome of spawn, with up to two sessions,    *)
(* their background threads and close.                                     *)
(***************************************************************************)
NextOpen ==
    \/ \E e \in EnvOpts, o \in SpawnOutcomes :
           NextId \in AllIds /\ OpenLocal(e, None, None, o)
    \/ \E r \in BOOLEAN, e \in EnvOpts, o \in SpawnOutcomes :
           NextId \in AllIds /\ OpenSsh(r, <<"a">>, <<"b">>, None, None, <<>>, e, Some(80), Some(24), o)
    \/ \E c \in Callers, id \in AllIds :
           CallsBegun < MaxCalls /\ BackendClose(c, id)
    \/ \E id \in AllIds : KillRun(id)
    \/ \E id \in AllIds : ChildExit(id)
    \/ \E id \in AllIds : ReadEof(id)
    \/ \E id \in AllIds : ReadErr(id)
    \/ \E id \in AllIds : ReadFinalize(id)
    \/ \E id \in AllIds : ReadEmitExit(id)
    \/ \E id \in AllIds : WaitExited(id)
    \/ \E id \in AllIds : WaitErr(id)
    \/ \E id \in AllIds : WaitFinalize(id)
    \/ \E id \in AllIds : WaitEmitExit(id)

SpecOpen == Init /\ [][NextOpen]_vars

(***************************************************************************)
(* The inputs of open_local and open_ssh: initial sizes given or missing,  *)
(* port, identity file and extra arguments of every shape, ssh found or    *)
(* not, and every outcome of spawn.                                        *)
(***************************************************************************)
NextSpawn ==
    \/ \E e \in EnvOpts, ic \in ColOpts, ir \in RowOpts, o \in SpawnOutcomes :
           NextId \in AllIds /\ OpenLocal(e, ic, ir, o)
    \/ \E r \in BOOLEAN, u \in Users, h \in Hosts, p \in Ports, i \in Identities,
          x \in Extras, o \in SpawnOutcomes :
           NextId \in AllIds /\ OpenSsh(r, u, h, p, i, x, None, Some(80), Some(24), o)

SpecSpawn == Init /\ [][NextSpawn]_vars

(***************************************************************************)
(* Closing sessions: up to two sessions opened with the defaults, close    *)
(* calls, the detached kill threads and the background loops.  The kill    *)
(* thread of a close is an ordinary OS thread that contends with nobody    *)
(* for the killer lock, so it is scheduled eventually (weak fairness).     *)
(***************************************************************************)
NextClose ==
    \/ NextId \in AllIds /\ OpenLocal(None, None, None, "ok")
    \/ \E c \in Callers, id \in AllIds :
           CallsBegun < MaxCalls /\ BackendClose(c, id)
    \/ \E id \in AllIds : KillRun(id)
    \/ \E id \in AllIds : ChildExit(id)
    \/ \E id \in AllIds : ReadEof(id)
    \/ \E id \in AllIds : ReadErr(id)
    \/ \E id \in AllIds : ReadFinalize(id)
    \/ \E id \in AllIds : ReadEmitExit(id)
    \/ \E id \in AllIds : WaitExited(id)
    \/ \E id \in AllIds : WaitErr(id)
    \/ \E id \in AllIds : WaitFinalize(id)
    \/ \E id \in AllIds : WaitEmitExit(id)

SpecClose == Init /\ [][NextClose]_vars /\ \A id \in AllIds : WF_vars(KillRun(id))

(***************************************************************************)
(* Output streaming: up to two sessions opened with the defaults, their    *)
(* read loops reading several chunks each, and their child-wait threads.   *)
(***************************************************************************)
NextStream ==
    \/ NextId \in AllIds /\ OpenLocal(None, None, None, "ok")
    \/ \E id \in AllIds : ChildExit(id)
    \/ \E id \in AllIds : chunks[id] < MaxReads /\ ReadChunk(id)
    \/ \E id \in AllIds : EmitData(id)
    \/ \E id \in AllIds : ReadEof(id)
    \/ \E id \in AllIds : ReadErr(id)
    \/ \E id \in AllIds : ReadFinalize(id)
    \/ \E id \in AllIds : ReadEmitExit(id)
    \/ \E id \in AllIds : WaitExited(id)
    \/ \E id \in AllIds : WaitErr(id)
    \/ \E id \in AllIds : WaitFinalize(id)
    \/ \E id \in AllIds : WaitEmitExit(id)

SpecStream == Init /\ [][NextStream]_vars

(***************************************************************************)
(* A PTY reader that never reports end of file or an error: the read loop  *)
(* only reads chunks, and termination is seen by the child-wait thread     *)
(* alone.  The wait thread is an ordinary OS thread: child.wait() returns  *)
(* once the child has exited, and the registry lock it then takes is only  *)
(* ever held for one map operation, so each of its steps is taken          *)
(* eventually (weak fairness).                                             *)
(***************************************************************************)
NextWait ==
    \/ NextId \in AllIds /\ OpenLocal(None, None, None, "ok")
    \/ \E c \in Callers, id \in AllIds :
           CallsBegun < MaxCalls /\ BackendClose(c, id)
    \/ \E id \in AllIds : KillRun(id)
    \/ \E id \in AllIds : ChildExit(id)
    \/ \E id \in AllIds : chunks[id] < MaxChunks /\ ReadChunk(id)
    \/ \E id \in AllIds : EmitData(id)
    \/ \E id \in AllIds : WaitExited(id)
    \/ \E id \in AllIds : WaitErr(id)
    \/ \E id \in AllIds : WaitFinalize(id)
    \/ \E id \in AllIds : WaitEmitExit(id)

SpecWait ==
    /\ Init /\ [][NextWait]_vars
    /\ \A id \in AllIds :
           WF_vars(WaitExited(id)) /\ WF_vars(WaitFinalize(id)) /\ WF_vars(WaitEmitExit(id))

(***************************************************************************)
(* Callers at lock granularity, with the threads that take the registry    *)
(* lock for one map operation (spawn's insert, the wait thread's remove):  *)
(* those wait until the guard is free.  The read loops stay blocked in     *)
(* reader.read().                                                          *)
(***************************************************************************)
NextLocks ==
    \/ NextId \in AllIds /\ LockFree(RegistryLock) /\ OpenLocal(None, None, None, "ok")
    \/ \E c \in Callers, id \in AllIds, o \in {None, Some(CommandDock)} :
           CallsBegun < MaxCalls /\ LockedBegin(c, "write", id, <<"a", "LF">>, o, 0, 0)
    \/ \E c \in Callers, id \in AllIds :
           CallsBegun < MaxCalls /\ LockedBegin(c, "resize", id, <<>>, None, 80, 24)
    \/ \E c \in Callers, id \in AllIds :
           CallsBegun < MaxCalls /\ LockedBegin(c, "close", id, <<>>, None, 0, 0)
    \/ \E c \in Callers : LockAcquire(c)
    \/ \E c \in Callers : LockedLookup(c)
    \/ \E c \in Callers : LockedMeta(c)
    \/ \E c \in Callers, ok \in BOOLEAN : \E k \in 0..Len(calls[c].data) :
           LockedWriteAll(c, ok, k)
    \/ \E c \in Callers, ok \in BOOLEAN : LockedPtyResize(c, ok)
    \/ \E id \in AllIds : KillRun(id)
    \/ \E id \in AllIds : ChildExit(id)
    \/ \E id \in AllIds : WaitExited(id)
    \/ \E id \in AllIds : LockFree(RegistryLock) /\ WaitFinalize(id)
    \/ \E id \in AllIds : WaitEmitExit(id)

SpecLocks == Init /\ [][NextLocks]_vars

(***************************************************************************)
(* One write on a freshly opened session, with data strings long enough    *)
(* to reach the provenance limit.                                          *)
(***************************************************************************)
\* the state after open_local(None, None, None) returned Ok
InitProv ==
    /\ sessions = {1}
    /\ meta = [id \in AllIds |->
          IF id = 1
          THEN [env |-> "LOCAL", cols |-> DefaultCols, rows |-> DefaultRows,
                lastCmd |-> None, lastAt |-> None]
          ELSE NoMeta]
    /\ ptySize = [id \in AllIds |-> IF id = 1 THEN <<DefaultCols, DefaultRows>> ELSE <<0, 0>>]
    /\ childIn = [id \in AllIds |-> <<>>]
    /\ child = [id \in AllIds |-> IF id = 1 THEN "running" ELSE "none"]
    /\ readPc = [id \in AllIds |-> IF id = 1 THEN "read" ELSE "none"]
    /\ waitPc = [id \in AllIds |-> IF id = 1 THEN "wait" ELSE "none"]
    /\ chunks = [id \in AllIds |-> 0]
    /\ events = [id \in AllIds |-> <<>>]
    /\ killPending = [id \in AllIds |-> 0]
    /\ kills = [id \in AllIds |-> 0]
    /\ calls = [c \in Callers |-> Idle]
    /\ lastRet = [seq |-> 0, op |-> "none", id |-> 0, res |-> "none", io |-> "none"]
    /\ lastSpawn = [seq |-> 1, res |-> "Ok", id |-> 1, stage |-> "ok",
                    req |-> LocalReq(None, None, None),
                    spec |-> Some(LocalSpec(None, None, None))]
    /\ orphans = 0
    /\ clock = 1
    /\ removers = [id \in AllIds |-> <<>>]
    /\ okWrites = [id \in AllIds |-> <<>>]
    /\ wClean = [id \in AllIds |-> TRUE]
    /\ sizeAck = [id \in AllIds |-> None]
    /\ arcs = [id \in AllIds |-> IF id = 1 THEN 1 ELSE 0]
    /\ db = EmptyDb

NextProv ==
    \/ \E d \in ProvData :
           CallsBegun = 0 /\ FacadeWrite("c1", 1, d)
    \/ \E d \in ProvData, o \in Origins \ {None} :
           CallsBegun = 0 /\ FacadeWriteWithMeta("c1", 1, d, o)
    \/ WriteProv("c1")
    \/ \E f \in BOOLEAN : WriteAllOk("c1", f)

SpecProv == InitProv /\ [][NextProv]_vars

(***************************************************************************)
(* Properties.                                                             *)
(***************************************************************************)
\* a close(id) call found the entry and returned Ok
ClosedOk(id) == \E i \in 1..Len(removers[id]) : removers[id][i] = "close"

RecordedProvenance(id) == <<meta[id].lastCmd, meta[id].lastAt>>

\* C1: a session that close did not remove never has more than one
\* terminal:exit event, whichever loop finalizes first, and has exactly one
\* once both loops have finished.
C1_SingleExitPerNaturalExit ==
    \A id \in AllIds :
        ~ClosedOk(id) =>
            /\ ExitCount(id) <= 1
            /\ (readPc[id] = "done" /\ waitPc[id] = "done") => ExitCount(id) = 1

C1_Witness ==
    \E id \in AllIds :
        /\ ~ClosedOk(id)
        /\ readPc[id] = "done" /\ waitPc[id] = "done"
        /\ removers[id] = <<"wait">>
        /\ ExitCount(id) = 1

\* C2: a session for which close returned Ok has no terminal:exit event, in
\* any state before or after that close.
C2_NoExitAfterClose ==
    \A id \in AllIds : ClosedOk(id) => ExitCount(id) = 0

C2_Witness ==
    \E id \in AllIds :
        /\ ClosedOk(id)
        /\ readPc[id] = "done" /\ waitPc[id] = "done"
        /\ child[id] = "exited"
        /\ ExitCount(id) = 0

\* C3: of all removal attempts on one id (read loop, wait thread, close
\* calls) at most one finds an entry.
C3_SingleRemover ==
    \A id \in AllIds : Len(removers[id]) <= 1

C3_Witness ==
    \E id \in AllIds :
        /\ removers[id] = <<"close">>
        /\ readPc[id] = "done" /\ waitPc[id] = "done"
        /\ lastRet.op = "close" /\ lastRet.id = id /\ lastRet.res = "NotFound"

\* a call whose lookup ran while its id was not in the registry
AbsentCallStep ==
    /\ lastRet'.seq # lastRet.seq
    /\ calls' = calls
    /\ lastRet'.id \notin sessions

\* C4: write, resize and close on an id that is not in the registry (never
\* issued, or removed before) return NotFound and change no session, no
\* child input, no kill and no event.
C4_UnknownSessionNotFound ==
    [][AbsentCallStep =>
          /\ lastRet'.res = "NotFound"
          /\ UNCHANGED <<sessions, meta, ptySize, childIn, child, readPc, waitPc,
                         chunks, events, killPending, kills, calls>>]_vars

C4_Witness ==
    /\ lastRet.op = "write" /\ lastRet.res = "NotFound"
    /\ removers[lastRet.id] = <<"read">>
    /\ lastRet.seq = 2

\* C5: when the writes on a session ran one after another and all returned
\* Ok, the child's input is the concatenation of their raw data strings in
\* that order.
C5_WriteOrder ==
    \A id \in AllIds : wClean[id] => childIn[id] = Flatten(okWrites[id])

C5_Witness ==
    /\ wClean[1]
    /\ Len(okWrites[1]) = 2
    /\ okWrites[1][1] # okWrites[1][2]
    /\ meta[1].lastCmd # None

\* a step of a write that came through the plain write or carries an origin
\* other than "commanddock"
UntaggedWriteStep ==
    \E c \in Callers :
        /\ calls'[c] # calls[c]
        /\ LET w == IF calls[c].op = "write" THEN calls[c] ELSE calls'[c]
           IN  /\ w.op = "write"
               /\ w.plain \/ w.origin # Some(CommandDock)

\* C6: a write whose origin is unset or is not "commanddock", the facade's
\* plain write included, leaves every session's recorded command and
\* timestamp as they were.
C6_ProvenanceScrubbing ==
    [][UntaggedWriteStep =>
          \A id \in AllIds : RecordedProvenance(id)' = RecordedProvenance(id)]_vars

C6_Witness ==
    /\ lastRet.op = "write" /\ lastRet.res = "Ok" /\ lastRet.seq = 2
    /\ Len(okWrites[1]) = 2
    /\ meta[1].lastCmd = None

\* the command the specification describes: newlines and carriage returns
\* removed, trimmed, the first 512 characters kept
ClaimedCmd(data) == CharPrefix(Trim(StripCrLf(data)), ProvMax)

\* C7: a commanddock-origin write does not fail in the provenance step and
\* records the stripped, trimmed data cut to its first 512 characters.
C7_ProvenanceTruncation ==
    [][\A c \in Callers :
          (/\ calls[c].op = "write" /\ calls[c].pc = "prov"
           /\ calls'[c] # calls[c]
           /\ ClaimedCmd(calls[c].data) # <<>>)
          => /\ calls'[c].pc = "write_all"
             /\ meta'[calls[c].id].lastCmd = Some(ClaimedCmd(calls[c].data))]_vars

\* C8: after a resize of a session returned Ok, no other resize of that
\* session having been in progress during the call, the recorded size is the
\* requested one, until the next resize of that session starts.
C8_ResizeReflected ==
    \A id \in AllIds :
        sizeAck[id] # None => <<meta[id].cols, meta[id].rows>> = sizeAck[id][1]

C8_Witness ==
    /\ 1 \in sessions
    /\ sizeAck[1] = Some(<<80, 24>>)
    /\ lastRet.op = "resize" /\ lastRet.res = "Ok"

\* C9: a spawn (open_local, open_ssh) that returns an error leaves the
\* registry as it was, starts no thread and emits no event.
C9_FailedSpawnNoEntry ==
    [][(lastSpawn'.seq # lastSpawn.seq /\ lastSpawn'.res # "Ok") =>
          UNCHANGED <<sessions, meta, ptySize, childIn, readPc, waitPc, events>>]_vars

C9_Witness ==
    /\ lastSpawn.res = "Backend" /\ lastSpawn.stage = "take_writer"
    /\ sessions = {1}
    /\ readPc[2] = "none" /\ waitPc[2] = "none"

\* C10: a write or resize that returns Backend leaves the registry as it
\* was, so the session is still found by the next call.
C10_BackendKeepsSession ==
    [][(lastRet'.seq # lastRet.seq /\ lastRet'.res = "Backend") =>
          /\ sessions' = sessions
          /\ lastRet'.id \in sessions => Found(sessions', lastRet'.id)]_vars

C10_Witness ==
    \E c \in Callers :
        /\ lastRet.op = "resize" /\ lastRet.res = "Backend"
        /\ calls[c].op = "resize" /\ calls[c].id = lastRet.id /\ calls[c].solo

\* a detection path of the session has observed termination: the read loop
\* left its loop on EOF or a read error, or child.wait() returned
Confirmed(id) ==
    \/ readPc[id] \in {"finalize", "emit_exit", "done"}
    \/ waitPc[id] \in {"finalize", "emit_exit", "done"}

\* threads that still hold a clone of the session's Arc after its removal
Holders(id) == killPending[id] + Cardinality({c \in Callers : calls[c].op # "idle" /\ calls[c].id = id})

\* the Session object has been dropped: no map entry and no other Arc
Released(id) == id \notin sessions /\ Holders(id) = 0

\* C11 as stated: an issued id is in the registry exactly when no detection
\* path has yet confirmed termination and the session is not yet released.
C11_PresentIffUnconfirmed ==
    \A id \in Issued :
        id \in sessions <=> (~Confirmed(id) /\ ~Released(id))

\* C11 (amended): an id is in the registry exactly when a spawn inserted it
\* and no removal (a loop's finalize step, or close) has taken it out yet;
\* a loop that is past its finalize step has left the id absent.
C11_PresentIffNotRemoved ==
    \A id \in AllIds :
        /\ id \in sessions <=> (id \in Issued /\ removers[id] = <<>>)
        /\ (readPc[id] \in {"emit_exit", "done"} \/ waitPc[id] \in {"emit_exit", "done"})
               => id \notin sessions

C11_Witness ==
    /\ 1 \notin sessions /\ removers[1] = <<"wait">>
    /\ 2 \in sessions /\ readPc[2] = "finalize" /\ child[2] = "running"

\* a close call that found the entry
CloseTookStep(id) ==
    /\ Len(removers'[id]) > Len(removers[id])
    /\ lastRet'.seq # lastRet.seq /\ lastRet'.op = "close"

\* C12: the step in which close removes the entry is the step in which it
\* returns Ok, whatever the child, the loops and earlier kill threads are
\* doing; it invokes no kill itself and changes neither the child nor a loop.
C12_CloseDoesNotWait ==
    [][\A id \in AllIds :
          CloseTookStep(id) =>
              /\ lastRet' = Ret("close", id, "Ok")
              /\ killPending'[id] = killPending[id] + 1
              /\ UNCHANGED <<kills, child, readPc, waitPc, events, calls>>]_vars

\* close returned Ok on both sessions and both children still run: for one
\* the kill was invoked (and ignored), for the other it was not yet invoked
C12_Witness ==
    /\ ClosedOk(1) /\ child[1] = "running" /\ kills[1] = 1
    /\ ClosedOk(2) /\ child[2] = "running" /\ kills[2] = 0 /\ killPending[2] = 1
    /\ lastRet.op = "close" /\ lastRet.res = "Ok"
    /\ readPc[2] = "read" /\ waitPc[2] = "wait"

\* C13: the kill of a session is invoked at most once, only for a session a
\* close call removed (never after a NotFound close, never by a loop's
\* finalize), and after a successful close it is eventually invoked.
C13_KillOnceByRemover ==
    /\ [](\A id \in AllIds :
             /\ kills[id] + killPending[id] <= 1
             /\ kills[id] + killPending[id] = IF ClosedOk(id) THEN 1 ELSE 0)
    /\ \A id \in AllIds : ClosedOk(id) ~> kills[id] = 1

C13_Witness ==
    /\ removers[1] = <<"close">> /\ kills[1] = 1 /\ killPending[1] = 0
    /\ lastRet.op = "close" /\ lastRet.id = 1 /\ lastRet.res = "NotFound"
    /\ removers[2] = <<"read">> /\ kills[2] = 0
    /\ lastRet.seq = 2

\* the terminal:data events of a session, in emission order
DataEvents(id) == SelectSeq(events[id], LAMBDA e : e.type = "terminal:data")

\* the non-empty chunks the read loop has read and is done emitting
ChunksEmitted(id) == IF readPc[id] = "emit_data" THEN chunks[id] - 1 ELSE chunks[id]

\* the read loop has read zero bytes or a read error
ReadStopped(id) == readPc[id] \in {"finalize", "emit_exit", "done"}

\* C14: the terminal:data events of a session are its read chunks, one event
\* per chunk in read order, under the session's own id; after the loop read
\* zero bytes or an error no terminal:data event is added.
C14_DataEventsFollowChunks ==
    /\ [](\A id \in AllIds :
             /\ Len(DataEvents(id)) = ChunksEmitted(id)
             /\ \A k \in 1..Len(DataEvents(id)) : DataEvents(id)[k] = DataEvent(k))
    /\ [][\A id \in AllIds :
             ReadStopped(id) => DataEvents(id)' = DataEvents(id)]_vars

C14_Witness ==
    /\ Len(DataEvents(1)) = 3 /\ readPc[1] = "done" /\ ExitCount(1) = 1
    /\ events[1][Len(events[1])] = ExitEvent
    /\ Len(DataEvents(2)) = 1 /\ readPc[2] = "emit_data" /\ chunks[2] = 2

\* a string that is empty or holds only whitespace
Blank(str) == \A i \in 1..Len(str) : IsWhitespace(str[i])

\* C15: the argument vector open_ssh hands to spawn is "-tt", then "-p" and
\* the port if a port is given, then "-i" and the identity file if one is
\* given and is not blank, then the extra arguments in their order, then
\* "user@host", and nothing else.
C15_SshArgumentVector ==
    (lastSpawn.req.kind = "ssh" /\ lastSpawn.spec # None) =>
        LET r == lastSpawn.req
            portPart == IF r.port = None THEN <<>>
                        ELSE <<FlagP, PortToString(r.port[1])>>
            idPart == IF r.identity = None THEN <<>>
                      ELSE IF Blank(r.identity[1]) THEN <<>>
                      ELSE <<FlagI, r.identity[1]>>
        IN  lastSpawn.spec[1].args =
                <<FlagTt>> \o portPart \o idPart \o r.extra \o <<Target(r.user, r.host)>>

C15_Witness ==
    /\ lastSpawn.req.kind = "ssh" /\ lastSpawn.res = "Ok"
    /\ lastSpawn.req.port = Some(65535)
    /\ lastSpawn.req.identity = Some(<<"SP", "a">>)
    /\ Len(lastSpawn.req.extra) = 2
    /\ Len(lastSpawn.spec[1].args) = 8
    /\ lastSpawn.spec[1].args[3] = <<"6", "5", "5", "3", "5">>

\* C16: an open_ssh call for which the ssh binary is not found returns
\* Backend without calling spawn: no PTY, no child, no registry entry and no
\* background thread come into being.
C16_SshUnresolvedNoSpawn ==
    [][(/\ lastSpawn'.seq # lastSpawn.seq
        /\ lastSpawn'.req.kind = "ssh" /\ ~lastSpawn'.req.sshFound)
       => /\ lastSpawn'.res = "Backend"
          /\ lastSpawn'.spec = None
          /\ UNCHANGED <<sessions, meta, ptySize, child, orphans, readPc, waitPc,
                         events>>]_vars

C16_Witness ==
    /\ lastSpawn.req.kind = "ssh" /\ ~lastSpawn.req.sshFound
    /\ lastSpawn.res = "Backend" /\ lastSpawn.stage = "ssh_program_checked"
    /\ lastSpawn.seq = 2 /\ sessions = {1} /\ child[2] = "none"

\* C17: a session is created with the PTY opened at the given columns and
\* rows, 120 columns where none are given and 30 rows where none are given,
\* each on its own, and the recorded size is the size the PTY was opened with.
C17_DefaultInitialSize ==
    [][(lastSpawn'.seq # lastSpawn.seq /\ lastSpawn'.res = "Ok") =>
          LET id == lastSpawn'.id
              r == lastSpawn'.req
          IN  /\ ptySize'[id] = <<IF r.cols = None THEN 120 ELSE r.cols[1],
                                   IF r.rows = None THEN 30 ELSE r.rows[1]>>
              /\ <<meta'[id].cols, meta'[id].rows>> = ptySize'[id]]_vars

C17_Witness ==
    /\ lastSpawn.res = "Ok" /\ lastSpawn.id = 2
    /\ lastSpawn.req.cols = Some(80) /\ lastSpawn.req.rows = None
    /\ ptySize[2] = <<80, 30>> /\ meta[2].cols = 80 /\ meta[2].rows = 30
    /\ ptySize[1] = <<120, 30>> /\ meta[1].cols = 120

\* a write that found its session returns in this step
LiveWriteReturns ==
    /\ lastRet'.seq # lastRet.seq /\ lastRet'.op = "write"
    /\ \E c \in Callers : calls[c].op = "write" /\ calls'[c] = Idle

\* C18: a write that found its session returns Backend exactly when
\* write_all failed; when write_all succeeded and only the flush failed it
\* returns Ok, with all the data bytes in the child's input.
C18_BackendIffWriteFails ==
    [][LiveWriteReturns =>
          /\ lastRet'.res = "Backend" <=> lastRet'.io = "write_all_failed"
          /\ lastRet'.io = "flush_failed" =>
                 /\ lastRet'.res = "Ok"
                 /\ \E c \in Callers :
                        /\ calls[c].op = "write" /\ calls'[c] = Idle
                        /\ childIn'[lastRet'.id] = childIn[lastRet'.id] \o calls[c].data]_vars

C18_Witness ==
    /\ lastRet.op = "write" /\ lastRet.res = "Ok" /\ lastRet.io = "flush_failed"
    /\ lastRet.seq = 2
    /\ Len(okWrites[lastRet.id]) = 1 /\ ~wClean[lastRet.id]

\* C19: a successful spawn inserts and returns an id that is not in the
\* registry and never was; an id once removed is never inserted again; and a
\* step of a session's background loop changes the registry entry and the
\* events of that session only.
C19_IdsNeverReused ==
    [][\A id \in AllIds :
          /\ (id \in sessions' /\ id \notin sessions) =>
                 /\ id \notin Issued /\ removers[id] = <<>> /\ events[id] = <<>>
                 /\ lastSpawn'.seq # lastSpawn.seq
                 /\ lastSpawn'.res = "Ok" /\ lastSpawn'.id = id
          /\ (readPc'[id] # readPc[id] \/ waitPc'[id] # waitPc[id]) =>
                 \A j \in AllIds \ {id} :
                     /\ (j \in sessions') = (j \in sessions)
                     /\ events'[j] = events[j]
                     /\ removers'[j] = removers[j]]_vars

C19_Witness ==
    /\ sessions = {2} /\ lastSpawn.res = "Ok" /\ lastSpawn.id = 2
    /\ removers[1] = <<"read">> /\ ExitCount(1) = 1
    /\ readPc[1] = "done" /\ waitPc[1] = "done"
    /\ readPc[2] = "read" /\ waitPc[2] = "wait" /\ events[2] = <<>>

\* C20: the environment tag of a session is the tag its spawn was given and
\* no step of write, resize, close, the kill thread or a background loop
\* changes it.
C20_EnvironmentTagImmutable ==
    [][\A id \in AllIds :
          /\ id \in Issued => meta'[id].env = meta[id].env
          /\ (id \notin Issued /\ id \in Issued') =>
                 meta'[id].env = lastSpawn'.spec[1].environment_tag]_vars

C20_Witness ==
    /\ meta[1].env = "LOCAL"
    /\ meta[1].lastCmd # None
    /\ lastRet.op = "resize" /\ lastRet.res = "Ok" /\ lastRet.seq = 2
    /\ <<meta[1].cols, meta[1].rows>> = <<100, 40>>
    /\ readPc[1] = "done" /\ waitPc[1] = "done"

\* C21: once the child of a session has exited, the id eventually leaves the
\* registry although the read loop never sees EOF or an error, and unless a
\* close removed it a terminal:exit event is eventually emitted for it.
C21_WaitLoopFinalizes ==
    \A id \in AllIds :
        /\ (child[id] = "exited") ~> (id \notin sessions)
        /\ (child[id] = "exited") ~> (ClosedOk(id) \/ ExitCount(id) = 1)

C21_Witness ==
    /\ child[1] = "exited" /\ readPc[1] = "read" /\ chunks[1] = 1
    /\ 1 \notin sessions /\ removers[1] = <<"wait">> /\ ExitCount(1) = 1
    /\ waitPc[1] = "done"

\* a close call returns in this step
CloseReturns == lastRet'.seq # lastRet.seq /\ lastRet'.op = "close"

\* C22: of the close calls on one session at most one returns Ok and the
\* others return NotFound: a close returns Ok only if neither a close nor a
\* background loop took the entry before it.  When a loop took it, every
\* close returns NotFound and that loop's terminal:exit is the only one.
C22_OneCloseSucceeds ==
    /\ [][CloseReturns =>
             /\ lastRet'.res \in {"Ok", "NotFound"}
             /\ lastRet'.res = "Ok" <=> (lastRet'.id \in Issued /\ removers[lastRet'.id] = <<>>)]_vars
    /\ [](\A id \in AllIds :
             /\ (removers[id] # <<>> /\ removers[id][1] # "close") => ~ClosedOk(id)
             /\ (removers[id] = <<"wait">> /\ waitPc[id] = "done") => ExitCount(id) = 1
             /\ (removers[id] = <<"read">> /\ readPc[id] = "done") => ExitCount(id) = 1)

C22_Witness ==
    /\ removers[1] = <<"wait">> /\ waitPc[1] = "done" /\ readPc[1] = "done"
    /\ ExitCount(1) = 1
    /\ lastRet.op = "close" /\ lastRet.id = 1 /\ lastRet.res = "NotFound" /\ lastRet.seq = 2

\* caller d waits for a mutex whose guard caller c holds
WaitsFor(d, c) == d # c /\ Wanted(calls[d]) \in calls[c].locks

\* C23: no caller thread holds two guards at once, and none holds the
\* registry guard while inside write_all / flush or master.resize; a call in
\* progress can always take its next step unless it waits for a guard whose
\* holder can take its own; and while one caller is inside write_all every
\* other call, except a write to the same session, can take its next step.
C23_OneLockAtATime ==
    \A c \in Callers :
        /\ Cardinality(calls[c].locks) <= 1
        /\ calls[c].pc \in {"writing", "resizing"} => RegistryLock \notin calls[c].locks
        /\ calls[c].op # "idle" =>
               \/ ENABLED CallerStep(c)
               \/ \E d \in Callers : WaitsFor(c, d) /\ ENABLED CallerStep(d)
        /\ calls[c].pc = "writing" =>
               \A d \in Callers \ {c} :
                   (calls[d].op # "idle" /\ Wanted(calls[d]) # WriterLock(calls[c].id))
                       => ENABLED CallerStep(d)

\* a write to session 1 is inside write_all, holding the writer guard, while
\* a close of session 1 has come and gone
C23_Witness ==
    /\ calls["c1"].pc = "writing" /\ calls["c1"].id = 1
    /\ calls["c1"].locks = {WriterLock(1)}
    /\ ClosedOk(1) /\ lastRet.op = "close" /\ lastRet.res = "Ok"
    /\ 2 \in sessions

\* the steps of a background loop after it stopped reading or waiting, as
\* lines 125-136 and 145-156 have them: remove, then notify if removed
LoopFinalizes(pc, id) ==
    /\ (pc[id] = "finalize" /\ pc'[id] # "finalize") =>
           /\ sessions' = sessions \ {id}
           /\ pc'[id] = IF id \in sessions THEN "emit_exit" ELSE "done"
           /\ events' = events
    /\ (pc[id] = "emit_exit" /\ pc'[id] # "emit_exit") =>
           /\ pc'[id] = "done"
           /\ events'[id] = Append(events[id], ExitEvent)
           /\ sessions' = sessions

\* C24: a loop that stops, whether or not the child has exited (a read
\* error, a failed wait), goes to the same finalize step, which removes the
\* entry and notifies if it removed it; nothing is returned to a caller.
C24_LoopErrorsFinalize ==
    [][\A id \in AllIds :
          /\ (readPc[id] = "read" /\ readPc'[id] \notin {"read", "emit_data"}) =>
                 /\ readPc'[id] = "finalize"
                 /\ UNCHANGED <<sessions, events, calls, lastRet, lastSpawn>>
          /\ (waitPc[id] = "wait" /\ waitPc'[id] # "wait") =>
                 /\ waitPc'[id] = "finalize"
                 /\ UNCHANGED <<sessions, events, calls, lastRet, lastSpawn>>
          /\ LoopFinalizes(readPc, id)
          /\ LoopFinalizes(waitPc, id)
          /\ (readPc'[id] # readPc[id] \/ waitPc'[id] # waitPc[id]) =>
                 (id \in Issued => UNCHANGED <<lastRet, lastSpawn, calls>>)]_vars

\* both loops of session 1 finalized on errors while its child still runs
C24_Witness ==
    /\ child[1] = "running"
    /\ readPc[1] = "done" /\ waitPc[1] = "done"
    /\ removers[1] = <<"read">> /\ 1 \notin sessions
    /\ ExitCount(1) = 1 /\ Len(DataEvents(1)) = 1

\* a commanddock-origin write whose data is only carriage returns, newlines
\* and whitespace
EmptyCommandWrite(call) ==
    /\ call.op = "write" /\ call.origin = Some(CommandDock) /\ ~call.plain
    /\ \A i \in 1..Len(call.data) : IsWhitespace(call.data[i])

\* C25: a commanddock-origin write whose data normalizes to the empty
\* string leaves the recorded command and timestamp of every session as
\* they were in each of its steps, and when it returns Ok its raw data bytes
\* have been added to the child's input.
C25_EmptyCommandKeepsProvenance ==
    [][\A c \in Callers :
          (EmptyCommandWrite(calls[c]) /\ calls'[c] # calls[c]) =>
              /\ \A id \in AllIds : RecordedProvenance(id)' = RecordedProvenance(id)
              /\ calls[c].pc = "prov" => calls'[c].pc = "write_all"
              /\ (calls'[c] = Idle /\ lastRet'.res = "Ok") =>
                     childIn'[calls[c].id] = childIn[calls[c].id] \o calls[c].data]_vars

\* a command has been recorded, and an empty command write on the same
\* session is past its provenance step, about to write its bytes
C25_Witness ==
    \E c \in Callers :
        /\ EmptyCommandWrite(calls[c]) /\ calls[c].pc = "write_all" /\ calls[c].id = 1
        /\ calls[c].data = <<"LF">>
        /\ meta[1].lastCmd = Some(<<"a">>) /\ meta[1].lastAt = Some(1)
        /\ okWrites[1] = <<(<<"a", "LF">>)>>

(***************************************************************************)
(* The lifetime of the Session object: spawn in two steps, so that the     *)
(* threads it started run before it returns, with a write, a resize and a  *)
(* close per session and the child-wait thread.                            *)
(***************************************************************************)
NextArc ==
    \/ \E c \in Callers, o \in {"take_writer", "ok"} :
           /\ NextId \in AllIds
           /\ SpawnCall(c, LocalReq(None, None, None), LocalSpec(None, None, None), o)
    \/ \E c \in Callers : SpawnReturn(c)
    \/ \E c \in Callers, id \in AllIds :
           CallsBegun < MaxCalls + 1 /\ FacadeWrite(c, id, <<"a", "LF">>)
    \/ \E c \in Callers, id \in AllIds :
           CallsBegun < MaxCalls + 1 /\ BackendResize(c, id, 80, 24)
    \/ \E c \in Callers, id \in AllIds :
           CallsBegun < MaxCalls + 1 /\ BackendClose(c, id)
    \/ \E c \in Callers : WriteAllOk(c, TRUE)
    \/ \E c \in Callers : ResizeMeta(c)
    \/ \E c \in Callers : ResizeOk(c)
    \/ \E id \in AllIds : KillRun(id)
    \/ \E id \in AllIds : ChildExit(id)
    \/ \E id \in AllIds : WaitExited(id)
    \/ \E id \in AllIds : WaitFinalize(id)
    \/ \E id \in AllIds : WaitEmitExit(id)

SpecArc == Init /\ [][NextArc]_vars

\* the writer, the master and the killer of the Session of `id` are dropped
Dropped(id) == arcs[id] = 0

\* a write or a resize that looked the session up, or a kill, is in progress
InUse(id) == killPending[id] > 0 \/ Busy("write", id) \cup Busy("resize", id) # {}

\* C26 as stated: the resources of a session are never released while its id
\* is in the registry, and they are released in every state in which the id
\* has been removed and no write, resize or kill is still in progress.
C26_ReleasedWhenUnused ==
    \A id \in Issued :
        /\ id \in sessions => ~Dropped(id)
        /\ (id \notin sessions /\ ~InUse(id)) => Dropped(id)

\* C26, nearby statement that holds: the resources are never released while
\* the id is in the registry, and they are released in every state in which
\* the id has been removed, no write, resize or kill is in progress and the
\* spawn that created the session has returned.
C26_ReleasedWhenUnusedAfterSpawn ==
    \A id \in Issued :
        /\ id \in sessions => ~Dropped(id)
        /\ (id \notin sessions /\ ~InUse(id) /\ Busy("spawn", id) = {}) => Dropped(id)

\* a write that was in flight when close removed the id has returned, the
\* kill has run, and the Session is dropped
C26_Witness ==
    /\ removers[1] = <<"close">> /\ kills[1] = 1
    /\ lastRet.op = "write" /\ lastRet.id = 1 /\ lastRet.res = "Ok"
    /\ okWrites[1] # <<>> /\ ~InUse(1) /\ Busy("spawn", 1) = {}
    /\ Dropped(1)

(***************************************************************************)
(* The terminal_write command over one session and the store.              *)
(***************************************************************************)
CmdData == {<<"a", "CR", "LF">>, <<"CR", "LF">>}
DockIds == {None, Some("d1")}

NextCmd ==
    \/ NextId = 1 /\ OpenLocal(None, None, None, "ok")
    \/ \E c \in Callers, id \in AllIds, d \in CmdData, o \in Origins, k \in DockIds,
          scoped \in BOOLEAN, e \in EnvOpts, prefOk \in BOOLEAN, histOk \in BOOLEAN :
           /\ CallsBegun < MaxCalls
           /\ TerminalWrite(c, id, d, o, k, scoped, e, prefOk, histOk)
    \/ \E c \in Callers, id \in AllIds :
           CallsBegun < MaxCalls /\ BackendClose(c, id)
    \/ \E c \in Callers : WriteProv(c)
    \/ \E c \in Callers : WriteAllOk(c, TRUE)
    \/ \E id \in AllIds : KillRun(id)

SpecCmd == Init /\ [][NextCmd]_vars

\* what the store persists
Persisted(d) == <<d.prefs, d.history>>

\* C27: a step changes the persisted last-command preferences or the
\* persisted history only if it is a terminal_write command whose origin
\* is "commanddock"; a terminal_write with origin unset or any other value
\* leaves both unchanged, whatever the data.
C27_PersistsOnlyCommandDock ==
    [][Persisted(db') # Persisted(db) =>
           (db'.runs = db.runs + 1 /\ db'.lastOrigin = Some(CommandDock))]_vars

\* a commanddock command has written a preference row and a history row, and
\* a later command tagged "user" has left both as they were
C27_Witness ==
    /\ db.runs = 2 /\ db.lastOrigin = Some("user")
    /\ db.prefs[1] = Some([dock |-> Some("d1"), at |-> 1])
    /\ db.history = <<[scope |-> 1, env |-> "UNKNOWN", text |-> <<"a">>, dock |-> Some("d1")]>>

\* C28 as stated: no terminal:data event of a session follows its
\* terminal:exit event, so terminal:exit is the last event of the session.
C28_ExitIsLast ==
    \A id \in AllIds :
        \A i \in 1..Len(events[id]) :
            events[id][i] = ExitEvent => i = Len(events[id])

\* a write or resize of the session of `id` that has looked it up is in progress
Working(id) == Busy("write", id) \cup Busy("resize", id)

\* C29 as stated: once close(id) has returned Ok, no byte is written to the
\* child's input and no resize is applied to the PTY of the session, not even
\* by a write or resize that looked the session up before the close.
C29_NothingAfterClose ==
    [][\A id \in AllIds :
          ClosedOk(id) => (childIn'[id] = childIn[id] /\ ptySize'[id] = ptySize[id])]_vars

\* C29, nearby statement that holds: once close(id) has returned Ok, no write
\* or resize that starts afterwards finds the session, so the only bytes
\* written and resizes applied afterwards are those of calls that looked the
\* session up before the close removed it; once these have returned nothing
\* more is written or applied.
C29_OnlyCallsInProgressAtClose ==
    [][/\ \A c \in Callers :
             (calls[c] = Idle /\ calls'[c].op \in {"write", "resize"})
                 => ~ClosedOk(calls'[c].id)
       /\ \A id \in AllIds :
             (ClosedOk(id) /\ Working(id) = {})
                 => (childIn'[id] = childIn[id] /\ ptySize'[id] = ptySize[id])]_vars

\* session 1 was closed; bytes reached its child, and a write that started
\* after the close has returned NotFound
C29_Witness ==
    /\ ClosedOk(1) /\ childIn[1] = <<"a", "LF">>
    /\ lastRet.op = "write" /\ lastRet.id = 1 /\ lastRet.res = "NotFound"
    /\ lastRet.seq = 3 /\ Working(1) = {}

(***************************************************************************)
(* Concurrent resizes of one session that all succeed.                     *)
(***************************************************************************)
NextResize ==
    \/ NextId = 1 /\ OpenLocal(None, None, None, "ok")
    \/ \E c \in Callers, id \in AllIds, sz \in Sizes :
           CallsBegun < MaxCalls + 1 /\ BackendResize(c, id, sz[1], sz[2])
    \/ \E c \in Callers : ResizeMeta(c)
    \/ \E c \in Callers : ResizeOk(c)

SpecResize == Init /\ [][NextResize]_vars

\* C30 as stated: when the resize calls on a live session, run concurrently,
\* have all returned Ok, the recorded size of the session equals the size
\* most recently applied to its PTY.
C30_RecordedMatchesPty ==
    \A id \in sessions :
        Busy("resize", id) = {} => <<meta[id].cols, meta[id].rows>> = ptySize[id]

\* the step in which resize call c, alone on its session throughout, returns
\* Backend
SoloResizeFails(c) ==
    /\ calls[c].op = "resize" /\ calls[c].solo
    /\ calls'[c] = Idle
    /\ lastRet' = Ret("resize", calls[c].id, "Backend")

\* C31 as stated: a resize that returns Backend leaves the recorded size as
\* it was, so the recorded size is the size last applied to the PTY (or the
\* initial size).  Stated for a resize no other resize ran alongside.
C31_FailedResizeKeepsRecordedSize ==
    [][\A c \in Callers :
          SoloResizeFails(c) =>
              <<meta'[calls[c].id].cols, meta'[calls[c].id].rows>> = ptySize'[calls[c].id]]_vars

\* C32 as stated: a spawn that returns an error leaves no child it launched
\* running and untracked.
C32_NoUntrackedChild ==
    lastSpawn.res # "Ok" => orphans = 0

\* C35 as stated: no terminal:data event of a session is emitted once a
\* close of it has returned Ok.
C35_NoDataAfterClose ==
    [][\A id \in AllIds : ClosedOk(id) => DataEvents(id)' = DataEvents(id)]_vars

\* the writes of the session that returned Ok delivered command text `cmd`
Delivered(id, cmd) ==
    \E i \in 1..Len(okWrites[id]) : ProvenanceCmd(okWrites[id][i]) = cmd

\* C36 as stated: the recorded command of a session is always the text of a
\* write that was delivered; a commanddock write that returns Backend because
\* write_all failed leaves the record as it was.
C36_ProvenanceOnlyDelivered ==
    \A id \in AllIds :
        (Busy("write", id) = {} /\ meta[id].lastCmd # None)
            => Delivered(id, meta[id].lastCmd[1])

(***************************************************************************)
(* The two loops and close under fair scheduling: every thread of the      *)
(* program that can take a step eventually takes it, and a reader whose    *)
(* child is gone eventually reports end of file.  Nothing obliges the      *)
(* child to exit, nor a read or a wait to fail.                            *)
(***************************************************************************)
NextLoops ==
    \/ NextId \in AllIds /\ OpenLocal(None, None, None, "ok")
    \/ \E c \in Callers, id \in AllIds :
           CallsBegun < MaxCalls /\ BackendClose(c, id)
    \/ \E id \in AllIds : KillRun(id)
    \/ \E id \in AllIds : ChildExit(id)
    \/ \E id \in AllIds : chunks[id] < MaxChunks /\ ReadChunk(id)
    \/ \E id \in AllIds : EmitData(id)
    \/ \E id \in AllIds : ReadEof(id)
    \/ \E id \in AllIds : ReadErr(id)
    \/ \E id \in AllIds : ReadFinalize(id)
    \/ \E id \in AllIds : ReadEmitExit(id)
    \/ \E id \in AllIds : WaitExited(id)
    \/ \E id \in AllIds : WaitErr(id)
    \/ \E id \in AllIds : WaitFinalize(id)
    \/ \E id \in AllIds : WaitEmitExit(id)

SpecLoops ==
    /\ Init /\ [][NextLoops]_vars
    /\ \A id \in AllIds :
           /\ WF_vars(KillRun(id))
           /\ WF_vars(EmitData(id)) /\ WF_vars(ReadEof(id))
           /\ WF_vars(ReadFinalize(id)) /\ WF_vars(ReadEmitExit(id))
           /\ WF_vars(WaitExited(id)) /\ WF_vars(WaitFinalize(id))
           /\ WF_vars(WaitEmitExit(id))

\* the session of `id` was removed from the registry by close or by a loop
Finalized(id) == id \in Issued /\ id \notin sessions

\* C34 as stated: once a session has been finalized, both of its background
\* loops eventually terminate.
C34_LoopsEndAfterFinalize ==
    \A id \in AllIds :
        Finalized(id) ~> (readPc[id] = "done" /\ waitPc[id] = "done")

(***************************************************************************)
(* The terminal_open_local command with close and the child-wait thread.   *)
(***************************************************************************)
NextOpenCmd ==
    \/ \E e \in EnvOpts, r \in SizeResults, o \in SpawnOutcomes,
          scopeOk \in BOOLEAN, touchOk \in BOOLEAN :
           /\ NextId \in AllIds /\ db.lastOpen.seq < MaxSpawns
           /\ TerminalOpenLocal(e, r, o, scopeOk, touchOk)
    \/ \E c \in Callers, id \in AllIds :
           CallsBegun < MaxCalls /\ BackendClose(c, id)
    \/ \E id \in AllIds : KillRun(id)
    \/ \E id \in AllIds : ChildExit(id)
    \/ \E id \in AllIds : WaitExited(id)
    \/ \E id \in AllIds : WaitFinalize(id)
    \/ \E id \in AllIds : WaitEmitExit(id)

SpecOpenCmd == Init /\ [][NextOpenCmd]_vars

\* C37 as stated: when terminal_open_local returns an error, no session its
\* spawn created is in the registry.
C37_FailedOpenLeavesNoSession ==
    [][(db'.lastOpen.seq # db.lastOpen.seq /\ db'.lastOpen.res = "Err")
          => db'.lastOpen.created \notin sessions']_vars

(***************************************************************************)
(* Concurrent writes on one session, byte by byte under the writer guard.  *)
(***************************************************************************)
ByteData == {<<"a", "LF">>, <<"b", "b", "LF">>}

NextBytes ==
    \/ NextId = 1 /\ LockFree(RegistryLock) /\ OpenLocal(None, None, None, "ok")
    \/ \E c \in Callers, id \in AllIds, d \in ByteData :
           CallsBegun < MaxCalls + 1 /\ LockedBegin(c, "write", id, d, None, 0, 0)
    \/ \E c \in Callers : LockAcquire(c)
    \/ \E c \in Callers : LockedLookup(c)
    \/ \E c \in Callers : LockedWriteByte(c)
    \/ \E c \in Callers, ok \in BOOLEAN : LockedWriteEnd(c, ok)

SpecBytes == Init /\ [][NextBytes]_vars

\* the bytes the write now inside write_all on `id` has sent so far
InProgressBytes(id) ==
    LET W == {c \in Callers : calls[c].op = "write" /\ calls[c].id = id
                               /\ calls[c].pc = "writing"}
    IN  IF W = {} THEN <<>>
        ELSE LET c == CHOOSE c \in W : TRUE
             IN  SubSeq(WriteBytes(calls[c].data, calls[c].origin), 1, calls[c].sent)

\* C33: while no write of a session has failed, the child's input is the
\* whole data strings of the writes that returned Ok, one after another in
\* the order they returned, followed by the bytes sent so far by the one
\* write inside write_all: the bytes of two writes are never interleaved.
C33_WritesContiguous ==
    \A id \in AllIds :
        wClean[id] => childIn[id] = Flatten(okWrites[id]) \o InProgressBytes(id)

\* a write has sent part of its data while another write waits for the
\* writer guard, after an earlier write was delivered whole
C33_Witness ==
    /\ calls["c1"].pc = "writing" /\ calls["c1"].sent = 1
    /\ calls["c1"].data = <<"b", "b", "LF">>
    /\ calls["c2"].pc = "writer" /\ calls["c2"].id = 1
    /\ okWrites[1] = <<(<<"a", "LF">>)>>
    /\ childIn[1] = <<"a", "LF", "b">>

====
